---- MODULE Spec2Model ----
(***************************************************************************)
(* A model of openCursor's tool execution framework and of its streaming   *)
(* tool-call loop:                                                         *)
(*   - DefaultToolManager (internal/tools/manager.go): the registry, its   *)
(*     RWMutex, the working directory and ExecuteTool;                     *)
(*   - Client.StreamQueryWithTools and Client.executeToolCall (the client  *)
(*     package): rounds, stream accumulation, dispatch, history.           *)
(* Strings that the code builds by concatenation or formatting are         *)
(* sequences of string pieces; a Go error is a record {isNil, text}.       *)
(***************************************************************************)
EXTENDS Integers, Sequences, FiniteSets, TLC

----------------------------------------------------------------------------
(* Values *)

\* Threads calling the manager concurrently, and the thread running the client.
Workers == {"w1", "w2"}
Orch == "client"
Threads == Workers \cup {Orch}
NoThread == "none"

\* Tool names callers use.  read_file is a tool of the repository; edit_file
\* is named by the system prompt but is registered by nothing.
Names == {"read_file", "edit_file"}

\* Two distinguishable Tool values (types.go: Tool{Schema, Function}).
ToolValues ==
  { [Schema |-> "schemaA", Function |-> "fnA"],
    [Schema |-> "schemaB", Function |-> "fnB"] }

\* The zero value Go yields for a missing map entry.
ZeroTool == [Schema |-> "", Function |-> ""]

Dirs == {"/work", "/tmp"}

WorkDirKey == "__work_dir__"

EmptyMap == [k \in {} |-> ""]

\* map[string]interface{}: nil, or a mapping of keys to values.
NilParams == [isNil |-> TRUE, m |-> EmptyMap]

MakeParams(m) == [isNil |-> FALSE, m |-> m]

CallerParams ==
  { NilParams,
    MakeParams(EmptyMap),
    MakeParams("target_file" :> "a.txt"),
    MakeParams(WorkDirKey :> "/evil"),
    MakeParams(("target_file" :> "a.txt") @@ (WorkDirKey :> "/evil")) }

\* Go errors.
NilError == [isNil |-> TRUE, text |-> <<>>]

Error(text) == [isNil |-> FALSE, text |-> text]

\* What a tool function may return: (result, nil) or (nil, err).
FnOutcomes ==
  { [Result |-> "result", Err |-> NilError],
    [Result |-> "nil", Err |-> Error(<<"boom">>)],
    [Result |-> "nil", Err |-> Error(<<>>)] }

NoResult == [Name |-> "", Result |-> "nil", Error |-> <<>>, Success |-> FALSE]

----------------------------------------------------------------------------
(* State *)

VARIABLES
  tools,      \* DefaultToolManager.tools: name -> Tool
  workDir,    \* DefaultToolManager.workDir
  mu,         \* DefaultToolManager.mu: the writer and the set of readers
  pc,         \* per thread: the manager method it is in
  local,      \* per thread: the method's arguments and local variables
  ret,        \* per thread: what its last manager call returned, until its next call
  firstReg    \* history: per name, the tool of the first RegisterTool call on it

mgrVars == <<tools, workDir, mu, pc, local, ret, firstReg>>

VARIABLES
  hasManager,     \* Client.toolManager != nil
  opc,            \* where StreamQueryWithTools is
  iteration,      \* the loop variable of the dialogue loop
  messages,       \* the message history
  toolDefs,       \* the tools declared to the model
  contentBuffer,  \* the round's text so far
  toolCalls,      \* the round's tool calls assembled so far
  callIdx,        \* the position of the range loop over toolCalls (from 1)
  recvErr,        \* the error of the last stream.Recv() ("" for nil)
  queryErr,       \* what StreamQueryWithTools returned, once opc = "done"
  sent,           \* history: the requests made, in order
  chunks,         \* history: the number of responses received so far
  received,       \* history: the round's tool-call fragments, in arrival order
  attempts        \* history: the positions executeToolCall was called for, this round

orchVars ==
  <<hasManager, opc, iteration, messages, toolDefs, contentBuffer, toolCalls,
    callIdx, recvErr, queryErr, sent, chunks, received, attempts>>

VARIABLES
  disk,   \* the filesystem: absolute path -> directory, or file with its bytes
  fnCall, \* history: the filesystem and the environment of the last tool function call
  procs   \* the processes started in the background, in the order they were started

toolVars == <<disk, fnCall, procs>>

vars == <<mgrVars, orchVars, toolVars>>

\* A method's arguments (name, tool, arg, dir) and its local variables, and
\* the history of a RegisterTool call that waits for the lock: whether its
\* name was unregistered when it was made (fresh), and the threads whose
\* RegisterTool calls on the same name were under way during it (with).
NoLocal ==
  [name |-> "", tool |-> ZeroTool, arg |-> NilParams, dir |-> "",
   exists |-> FALSE, params |-> NilParams, workDir |-> "",
   fresh |-> FALSE, with |-> {}]

NoOutcome == [Result |-> "nil", Err |-> NilError]

\* A method's return values (err, tool, exists, schemas, result, dir), with
\* the call they answer (op, name, argTool) and, of an ExecuteTool call, what
\* the tool function did (called, fnParams, fnOut), and the history of the
\* call (fresh, with).
NoRet ==
  [op |-> "", name |-> "", argTool |-> ZeroTool,
   err |-> NilError, tool |-> ZeroTool, exists |-> FALSE,
   schemas |-> <<>>, result |-> NoResult, dir |-> "",
   called |-> FALSE, fnParams |-> NilParams, fnOut |-> NoOutcome,
   fresh |-> FALSE, with |-> {}]

\* The answer to thread t's call of method op, before its return values.
Answer(t, op) ==
  [NoRet EXCEPT !.op = op, !.name = local[t].name, !.argTool = local[t].tool,
                !.fresh = local[t].fresh, !.with = local[t].with]

\* NewDefaultToolManager: an empty registry, workDir = os.Getwd().
NewDefaultToolManager ==
  /\ tools = EmptyMap
  /\ workDir = "/work"
  /\ mu = [writer |-> NoThread, readers |-> {}]
  /\ pc = [t \in Threads |-> "idle"]
  /\ local = [t \in Threads |-> NoLocal]
  /\ ret = [t \in Threads |-> NoRet]
  /\ firstReg = EmptyMap

\* NewClient: no query is running.
NewClient ==
  /\ opc = "idle"
  /\ iteration = 0
  /\ messages = <<>>
  /\ toolDefs = <<>>
  /\ contentBuffer = <<>>
  /\ toolCalls = <<>>
  /\ callIdx = 0
  /\ recvErr = ""
  /\ queryErr = NilError
  /\ sent = <<>>
  /\ chunks = 0
  /\ received = <<>>
  /\ attempts = <<>>

\* The client's and the manager's own code touch no file.
NoCall == [before |-> <<>>, io |-> <<>>, prev |-> <<>>]

NoFiles ==
  /\ disk = <<>>
  /\ fnCall = NoCall
  /\ procs = <<>>

----------------------------------------------------------------------------
(* sync.RWMutex *)

CanLock == mu.writer = NoThread /\ mu.readers = {}

CanRLock == mu.writer = NoThread

Lock(t) == [mu EXCEPT !.writer = t]

Unlock == [mu EXCEPT !.writer = NoThread]

RLock(t) == [mu EXCEPT !.readers = @ \cup {t}]

RUnlock(t) == [mu EXCEPT !.readers = @ \ {t}]

\* A thread enters a method: it takes the lock the method starts with.
Enter(t, label, loc) ==
  /\ pc[t] = "idle"
  /\ pc' = [pc EXCEPT ![t] = label]
  /\ local' = [local EXCEPT ![t] = loc]
  /\ ret' = [ret EXCEPT ![t] = NoRet]

\* A thread leaves a method with its return value.
Leave(t, r) ==
  /\ pc' = [pc EXCEPT ![t] = "idle"]
  /\ local' = [local EXCEPT ![t] = NoLocal]
  /\ ret' = [ret EXCEPT ![t] = r]

----------------------------------------------------------------------------
(* DefaultToolManager.SetWorkDirectory / GetWorkDirectory *)

SetWorkDirectory_Lock(t, dir) ==
  /\ CanLock
  /\ Enter(t, "SetWorkDirectory", [NoLocal EXCEPT !.dir = dir])
  /\ mu' = Lock(t)
  /\ UNCHANGED <<tools, workDir, firstReg>>

SetWorkDirectory_Body(t) ==
  /\ pc[t] = "SetWorkDirectory"
  /\ workDir' = local[t].dir
  /\ mu' = Unlock
  /\ Leave(t, Answer(t, "SetWorkDirectory"))
  /\ UNCHANGED <<tools, firstReg>>

GetWorkDirectory_RLock(t) ==
  /\ CanRLock
  /\ Enter(t, "GetWorkDirectory", NoLocal)
  /\ mu' = RLock(t)
  /\ UNCHANGED <<tools, workDir, firstReg>>

GetWorkDirectory_Body(t) ==
  /\ pc[t] = "GetWorkDirectory"
  /\ mu' = RUnlock(t)
  /\ Leave(t, [Answer(t, "GetWorkDirectory") EXCEPT !.dir = workDir])
  /\ UNCHANGED <<tools, workDir, firstReg>>

----------------------------------------------------------------------------
(* DefaultToolManager.RegisterTool *)

DuplicateError(name) == Error(<<"tool '", name, "' already registered">>)

RegisterTool_Lock(t, name, tool) ==
  /\ CanLock
  /\ Enter(t, "RegisterTool", [NoLocal EXCEPT !.name = name, !.tool = tool])
  /\ mu' = Lock(t)
  /\ UNCHANGED <<tools, workDir, firstReg>>

\* Line 40: RegisterTool(name, tool) is called, and waits at line 41 for the
\* write lock.
RegisterTool_Call(t, name, tool) ==
  LET under == { u \in Threads \ {t} :
                   pc[u] \in {"Lock", "RegisterTool"} /\ local[u].name = name }
  IN  /\ pc[t] = "idle"
      /\ pc' = [pc EXCEPT ![t] = "Lock"]
      /\ local' = [u \in Threads |->
                     IF u = t
                     THEN [NoLocal EXCEPT !.name = name, !.tool = tool,
                                          !.fresh = name \notin DOMAIN tools,
                                          !.with = under]
                     ELSE IF u \in under
                     THEN [local[u] EXCEPT !.with = @ \cup {t}]
                     ELSE local[u]]
      /\ ret' = [ret EXCEPT ![t] = NoRet]
      /\ UNCHANGED <<mu, tools, workDir, firstReg>>

\* Line 41: tm.mu.Lock() returns.
RegisterTool_Acquire(t) ==
  /\ pc[t] = "Lock"
  /\ CanLock
  /\ pc' = [pc EXCEPT ![t] = "RegisterTool"]
  /\ mu' = Lock(t)
  /\ UNCHANGED <<local, ret, tools, workDir, firstReg>>

\* A faulty variant: the exists check is missing, every registration succeeds.
RegisterTool_Store_Unchecked(t) ==
  /\ pc[t] = "RegisterTool"
  /\ tools' = (local[t].name :> local[t].tool) @@ tools
  /\ Leave(t, [Answer(t, "RegisterTool") EXCEPT !.err = NilError])

\* A faulty variant: the exists check is missing, a later registration overwrites.
RegisterTool_Overwrite(t) ==
  /\ pc[t] = "RegisterTool"
  /\ tools' = (local[t].name :> local[t].tool) @@ tools
  /\ Leave(t, [Answer(t, "RegisterTool") EXCEPT
                 !.err = IF local[t].name \in DOMAIN tools
                         THEN DuplicateError(local[t].name) ELSE NilError])

\* Lines 45-50, under the write lock.
RegisterTool_Store(t) ==
  /\ pc[t] = "RegisterTool"
  /\ IF local[t].name \in DOMAIN tools
     THEN /\ tools' = tools
          /\ Leave(t, [Answer(t, "RegisterTool") EXCEPT
                         !.err = DuplicateError(local[t].name)])
     ELSE /\ tools' = (local[t].name :> local[t].tool) @@ tools
          /\ Leave(t, [Answer(t, "RegisterTool") EXCEPT !.err = NilError])

RegisterTool_Body(t) ==
  /\ RegisterTool_Store(t)
  /\ mu' = Unlock
  /\ firstReg' = IF local[t].name \in DOMAIN firstReg
                 THEN firstReg
                 ELSE (local[t].name :> local[t].tool) @@ firstReg
  /\ UNCHANGED workDir

----------------------------------------------------------------------------
(* DefaultToolManager.GetTool *)

GetTool_RLock(t, name) ==
  /\ CanRLock
  /\ Enter(t, "GetTool", [NoLocal EXCEPT !.name = name])
  /\ mu' = RLock(t)
  /\ UNCHANGED <<tools, workDir, firstReg>>

\* tool, exists := tm.tools[name]
Lookup(name) ==
  IF name \in DOMAIN tools
  THEN [tool |-> tools[name], exists |-> TRUE]
  ELSE [tool |-> ZeroTool, exists |-> FALSE]

GetTool_Body(t) ==
  /\ pc[t] = "GetTool"
  /\ mu' = RUnlock(t)
  /\ Leave(t, [Answer(t, "GetTool") EXCEPT
                 !.tool = Lookup(local[t].name).tool,
                 !.exists = Lookup(local[t].name).exists])
  /\ UNCHANGED <<tools, workDir, firstReg>>

----------------------------------------------------------------------------
(* DefaultToolManager.ListTools *)

\* The orders in which Go may range over a map with the keys S.
Orders(S) ==
  { s \in [1..Cardinality(S) -> S] : \A n \in S : \E i \in DOMAIN s : s[i] = n }

ListTools_RLock(t) ==
  /\ CanRLock
  /\ Enter(t, "ListTools", NoLocal)
  /\ mu' = RLock(t)
  /\ UNCHANGED <<tools, workDir, firstReg>>

\* A faulty variant: the slice is made with len(tm.tools) zero schemas, and
\* the schemas of the tools are appended after them.
ListTools_Body_ZeroFilled(t) ==
  /\ pc[t] = "ListTools"
  /\ mu' = RUnlock(t)
  /\ \E order \in Orders(DOMAIN tools) :
       Leave(t, [Answer(t, "ListTools") EXCEPT
                   !.schemas = [i \in DOMAIN order |-> ZeroTool.Schema]
                               \o [i \in DOMAIN order |-> tools[order[i]].Schema]])
  /\ UNCHANGED <<tools, workDir, firstReg>>

ListTools_Body(t) ==
  /\ pc[t] = "ListTools"
  /\ mu' = RUnlock(t)
  /\ \E order \in Orders(DOMAIN tools) :
       Leave(t, [Answer(t, "ListTools") EXCEPT
                   !.schemas = [i \in DOMAIN order |-> tools[order[i]].Schema]])
  /\ UNCHANGED <<tools, workDir, firstReg>>

----------------------------------------------------------------------------
(* DefaultToolManager.ExecuteTool *)

NotFoundResult(name) ==
  [Name |-> name, Result |-> "nil", Error |-> <<"tool '", name, "' not found">>,
   Success |-> FALSE]

\* A faulty variant: a value the caller supplied under the reserved key is kept.
MergeWorkDir_KeepCaller(params, dir) ==
  IF WorkDirKey \in DOMAIN params.m
  THEN MakeParams(params.m)
  ELSE MakeParams((WorkDirKey :> dir) @@ params.m)

\* Lines 91-94: a nil map is made, then params["__work_dir__"] = workDir.
MergeWorkDir(params, dir) ==
  MakeParams((WorkDirKey :> dir) @@ (IF params.isNil THEN EmptyMap ELSE params.m))

\* A faulty variant: the function's error is dropped.
WrapResult_IgnoreErr(name, out) ==
  [Name |-> name, Result |-> out.Result, Error |-> <<>>, Success |-> TRUE]

\* Lines 97-109.
WrapResult(name, out) ==
  IF ~out.Err.isNil
  THEN [Name |-> name, Result |-> "nil", Error |-> out.Err.text, Success |-> FALSE]
  ELSE [Name |-> name, Result |-> out.Result, Error |-> <<>>, Success |-> TRUE]

\* Line 77.
ExecuteTool_RLock(t, name, params) ==
  /\ CanRLock
  /\ Enter(t, "ExecuteTool",
           [NoLocal EXCEPT !.name = name, !.arg = params, !.params = params])
  /\ mu' = RLock(t)
  /\ UNCHANGED <<tools, workDir, firstReg>>

\* A faulty variant: the exists check is missing, the zero Tool's function is called.
ExecuteTool_NoExistsCheck(t) ==
  /\ pc[t] = "ExecuteTool"
  /\ mu' = RUnlock(t)
  /\ pc' = [pc EXCEPT ![t] = "Function"]
  /\ local' = [local EXCEPT ![t].tool = Lookup(local[t].name).tool,
                            ![t].exists = Lookup(local[t].name).exists,
                            ![t].workDir = workDir,
                            ![t].params = MergeWorkDir(local[t].params, workDir)]
  /\ UNCHANGED <<tools, workDir, ret, firstReg>>

\* A faulty variant: the read lock is kept while the tool function runs.
ExecuteTool_Lookup_KeepLock(t) ==
  /\ pc[t] = "ExecuteTool"
  /\ IF ~Lookup(local[t].name).exists
     THEN /\ mu' = RUnlock(t)
          /\ Leave(t, [Answer(t, "ExecuteTool") EXCEPT
                         !.result = NotFoundResult(local[t].name)])
     ELSE /\ mu' = mu
          /\ pc' = [pc EXCEPT ![t] = "Function"]
          /\ local' = [local EXCEPT ![t].tool = Lookup(local[t].name).tool,
                                    ![t].exists = TRUE,
                                    ![t].workDir = workDir,
                                    ![t].params = MergeWorkDir(local[t].params, workDir)]
          /\ ret' = ret
  /\ UNCHANGED <<tools, workDir, firstReg>>

\* Lines 78-94: the lookup and the copy of workDir under the read lock, the
\* unlock, then either the not-found result or the merge of the working
\* directory and the call of tool.Function, which is running from here on.
ExecuteTool_Lookup(t) ==
  /\ pc[t] = "ExecuteTool"
  /\ mu' = RUnlock(t)
  /\ IF ~Lookup(local[t].name).exists
     THEN /\ Leave(t, [Answer(t, "ExecuteTool") EXCEPT
                         !.result = NotFoundResult(local[t].name)])
     ELSE /\ pc' = [pc EXCEPT ![t] = "Function"]
          /\ local' = [local EXCEPT ![t].tool = Lookup(local[t].name).tool,
                                    ![t].exists = TRUE,
                                    ![t].workDir = workDir,
                                    ![t].params = MergeWorkDir(local[t].params, workDir)]
          /\ ret' = ret
  /\ UNCHANGED <<tools, workDir, firstReg>>

\* A faulty variant: the working directory is read again when the function
\* returns.
ExecuteTool_Return_LateWorkDir(t, out) ==
  /\ pc[t] = "Function"
  /\ Leave(t, [Answer(t, "ExecuteTool") EXCEPT
                 !.result = WrapResult(local[t].name, out),
                 !.called = TRUE,
                 !.fnParams = MergeWorkDir(local[t].arg, workDir),
                 !.fnOut = out])
  /\ UNCHANGED <<tools, workDir, mu, firstReg>>

\* Lines 96-109: tool.Function returns out, with no lock held.
ExecuteTool_Return(t, out) ==
  /\ pc[t] = "Function"
  /\ Leave(t, [Answer(t, "ExecuteTool") EXCEPT
                 !.result = WrapResult(local[t].name, out),
                 !.called = TRUE,
                 !.fnParams = local[t].params,
                 !.fnOut = out])
  /\ UNCHANGED <<tools, workDir, mu, firstReg>>

----------------------------------------------------------------------------
(* The client: values *)

maxIterations == 5

\* A tool-call fragment of a streamed delta.  Index is a pointer: <<>> is
\* nil, <<i>> points to i.  Arguments is a piece of the argument text.
Fragment(index, id, type, name, arguments) ==
  [Index |-> index, ID |-> id, Type |-> type,
   Function |-> [Name |-> name, Arguments |-> arguments]]

\* The zero value openai.ToolCall{} that fills the slice up to an index.
ZeroToolCall == [ID |-> "", Type |-> "", Function |-> [Name |-> "", Arguments |-> <<>>]]

\* A stream response with one choice.
Response(content, fragments) ==
  [Choices |-> << [Delta |-> [Content |-> content, ToolCalls |-> fragments]] >>]

\* A stream response with no choice.
NoChoices == [Choices |-> <<>>]

Message(role, content, calls, id) ==
  [Role |-> role, Content |-> content, ToolCalls |-> calls, ToolCallID |-> id]

SystemMessage == Message("system", <<"SystemPrompt">>, <<>>, "")

UserMessage == Message("user", <<"query">>, <<>>, "")

----------------------------------------------------------------------------
(* json.Unmarshal of the argument text into map[string]interface{} *)

\* The argument text is a sequence of lexical units: the braces, the comma,
\* null, and whole members "key":"value".
MemberOf ==
  ("target_file:a.txt" :> <<"target_file", "a.txt">>)
    @@ ("__work_dir__:/evil" :> <<WorkDirKey, "/evil">>)

UnexpectedEnd == Error(<<"unexpected end of JSON input">>)

InvalidCharacter == Error(<<"invalid character">>)

ParseFailure(err) == [err |-> err, params |-> NilParams]

\* text[i..] must be: member ("," member)* "}", with nothing after it.
RECURSIVE ParseMembers(_, _, _)
ParseMembers(text, i, m) ==
  IF i > Len(text) THEN ParseFailure(UnexpectedEnd)
  ELSE IF text[i] \notin DOMAIN MemberOf THEN ParseFailure(InvalidCharacter)
  ELSE LET kv == MemberOf[text[i]]
           m2 == (kv[1] :> kv[2]) @@ m
       IN  IF i + 1 > Len(text) THEN ParseFailure(UnexpectedEnd)
           ELSE IF text[i + 1] = ","
             THEN ParseMembers(text, i + 2, m2)
           ELSE IF text[i + 1] = "}" /\ i + 1 = Len(text)
             THEN [err |-> NilError, params |-> MakeParams(m2)]
           ELSE ParseFailure(InvalidCharacter)

\* var params map[string]interface{}; err := json.Unmarshal(text, &params)
Unmarshal(text) ==
  IF text = <<>> THEN ParseFailure(UnexpectedEnd)
  ELSE IF text = <<"null">> THEN [err |-> NilError, params |-> NilParams]
  ELSE IF text[1] # "{" THEN ParseFailure(InvalidCharacter)
  ELSE IF Len(text) = 1 THEN ParseFailure(UnexpectedEnd)
  ELSE IF text[2] = "}"
    THEN IF Len(text) = 2
         THEN [err |-> NilError, params |-> MakeParams(EmptyMap)]
         ELSE ParseFailure(InvalidCharacter)
  ELSE ParseMembers(text, 2, EmptyMap)

\* json.MarshalIndent of a tool's result, as text.
MarshalIndent(v) ==
  IF v = "nil" THEN [err |-> NilError, text |-> <<"null">>]
  ELSE IF v = "unserializable"
    THEN [err |-> Error(<<"json: unsupported type">>), text |-> <<>>]
  ELSE [err |-> NilError, text |-> <<"json:", v>>]

----------------------------------------------------------------------------
(* Client.StreamQueryWithTools: the stream of one round *)

\* A faulty variant: every fragment is merged into the first tool call.
MergeToolCall_IgnoreIndex(calls, f) ==
  IF f.Index = <<>> THEN calls
  ELSE LET grown == IF calls = <<>> THEN <<ZeroToolCall>> ELSE calls
       IN  [grown EXCEPT
              ![1].ID = IF f.ID # "" THEN f.ID ELSE @,
              ![1].Type = IF f.ID # "" THEN f.Type ELSE @,
              ![1].Function.Name =
                 IF f.Function.Name # "" THEN f.Function.Name ELSE @,
              ![1].Function.Arguments = @ \o f.Function.Arguments]

\* Lines 355-375: one fragment is merged into the slice of tool calls.
MergeToolCall(calls, f) ==
  IF f.Index = <<>> THEN calls
  ELSE LET index == f.Index[1]
           grown ==
             IF Len(calls) <= index
             THEN calls \o [i \in 1..(index + 1 - Len(calls)) |-> ZeroToolCall]
             ELSE calls
       IN  [grown EXCEPT
              ![index + 1].ID = IF f.ID # "" THEN f.ID ELSE @,
              ![index + 1].Type = IF f.ID # "" THEN f.Type ELSE @,
              ![index + 1].Function.Name =
                 IF f.Function.Name # "" THEN f.Function.Name ELSE @,
              ![index + 1].Function.Arguments =
                 IF f.Function.Arguments # <<>>
                 THEN @ \o f.Function.Arguments ELSE @]

\* Lines 353-377: the fragments of one delta, in order.
RECURSIVE MergeToolCalls(_, _)
MergeToolCalls(calls, fragments) ==
  IF fragments = <<>> THEN calls
  ELSE MergeToolCalls(MergeToolCall(calls, Head(fragments)), Tail(fragments))

\* Lines 347-350.
AppendContent(buffer, content) ==
  IF content # "" THEN Append(buffer, content) ELSE buffer

----------------------------------------------------------------------------
(* Client.StreamQueryWithTools and Client.executeToolCall *)

\* convertToolsToOpenAI
ConvertToolsToOpenAI(schemas) ==
  [i \in DOMAIN schemas |-> [Type |-> "function", Function |-> schemas[i]]]

\* A faulty variant: a request carries the system and user messages only.
Request_WithoutHistory ==
  [Messages |-> SubSeq(messages, 1, 2), Tools |-> toolDefs, Stream |-> TRUE]

\* Lines 311-320.
Request == [Messages |-> messages, Tools |-> toolDefs, Stream |-> TRUE]

\* Lines 289-305: the history is built; ListTools is called if a manager is set.
Query_Start ==
  /\ opc = "idle"
  /\ messages' = <<SystemMessage, UserMessage>>
  /\ IF hasManager
     THEN /\ ListTools_RLock(Orch)
          /\ opc' = "ListTools"
     ELSE /\ opc' = "loop"
          /\ UNCHANGED mgrVars
  /\ UNCHANGED <<hasManager, iteration, toolDefs, contentBuffer, toolCalls, callIdx,
                 recvErr, queryErr, sent, chunks, received, attempts>>

\* Lines 303-304.
Query_ListTools ==
  /\ opc = "ListTools"
  /\ ListTools_Body(Orch)
  /\ toolDefs' = ConvertToolsToOpenAI(ret'[Orch].schemas)
  /\ opc' = "loop"
  /\ UNCHANGED <<hasManager, iteration, messages, contentBuffer, toolCalls, callIdx,
                 recvErr, queryErr, sent, chunks, received, attempts>>

\* A faulty variant: the loop runs while iteration <= maxIterations.
LoopCondition_OffByOne == iteration <= maxIterations

\* Line 309.
LoopCondition == iteration < maxIterations

\* A faulty variant: a last request with the history is made when the loop
\* ends by its condition.
Loop_Cap_LastRequest ==
  /\ opc = "loop"
  /\ ~LoopCondition
  /\ opc' = "done"
  /\ queryErr' = NilError
  /\ sent' = Append(sent, Request)
  /\ UNCHANGED <<mgrVars, hasManager, iteration, messages, toolDefs, contentBuffer,
                 toolCalls, callIdx, recvErr, chunks, received, attempts>>

\* Lines 309, 430: the loop ends by its condition and the query returns nil.
Loop_Cap ==
  /\ opc = "loop"
  /\ ~LoopCondition
  /\ opc' = "done"
  /\ queryErr' = NilError
  /\ UNCHANGED <<mgrVars, hasManager, iteration, messages, toolDefs, contentBuffer,
                 toolCalls, callIdx, recvErr, sent, chunks, received, attempts>>

\* Lines 323-326: the request is made and the stream is not established.
CreateStream_Fail ==
  /\ opc = "loop"
  /\ LoopCondition
  /\ sent' = Append(sent, Request)
  /\ opc' = "done"
  /\ queryErr' = Error(<<"failed to create chat completion stream: ", "dial">>)
  /\ UNCHANGED <<mgrVars, hasManager, iteration, messages, toolDefs, contentBuffer,
                 toolCalls, callIdx, recvErr, chunks, received, attempts>>

\* Lines 323-330: the request is made and the stream is established.
CreateStream_OK ==
  /\ opc = "loop"
  /\ LoopCondition
  /\ sent' = Append(sent, Request)
  /\ opc' = "recv"
  /\ contentBuffer' = <<>>
  /\ toolCalls' = <<>>
  /\ recvErr' = ""
  /\ received' = <<>>
  /\ attempts' = <<>>
  /\ callIdx' = 0
  /\ UNCHANGED <<mgrVars, hasManager, iteration, messages, toolDefs, queryErr, chunks>>

\* Lines 334, 343-378: stream.Recv() returns the response r.
Recv_Response(r) ==
  /\ opc = "recv"
  /\ recvErr' = ""
  /\ chunks' = chunks + 1
  /\ IF Len(r.Choices) > 0
     THEN LET delta == r.Choices[1].Delta
          IN  /\ contentBuffer' = AppendContent(contentBuffer, delta.Content)
              /\ toolCalls' = MergeToolCalls(toolCalls, delta.ToolCalls)
              /\ received' = received \o delta.ToolCalls
     ELSE UNCHANGED <<contentBuffer, toolCalls, received>>
  /\ UNCHANGED <<mgrVars, hasManager, opc, iteration, messages, toolDefs, callIdx,
                 queryErr, sent, attempts>>

\* Lines 384-388.
AssistantMessage == Message("assistant", contentBuffer, toolCalls, "")

\* A faulty variant: a round without tool calls does not end the loop.
AfterStream_NoBreak ==
  /\ messages' = Append(messages, AssistantMessage)
  /\ opc' = "dispatch"
  /\ callIdx' = 1
  /\ UNCHANGED queryErr

\* Lines 381-400: without tool calls the loop is left and the query returns
\* nil; with tool calls the assistant message is appended to the history.
AfterStream ==
  IF Len(toolCalls) = 0
  THEN /\ opc' = "done"
       /\ queryErr' = NilError
       /\ UNCHANGED <<messages, callIdx>>
  ELSE /\ messages' = Append(messages, AssistantMessage)
       /\ opc' = "dispatch"
       /\ callIdx' = 1
       /\ UNCHANGED queryErr

\* Lines 334-337, 381-400: stream.Recv() returns EOF.
Recv_EOF ==
  /\ opc = "recv"
  /\ recvErr' = "EOF"
  /\ AfterStream
  /\ UNCHANGED <<mgrVars, hasManager, iteration, toolDefs, contentBuffer, toolCalls,
                 sent, chunks, received, attempts>>

\* Lines 334-341: stream.Recv() returns another error.
Recv_Error ==
  /\ opc = "recv"
  /\ recvErr' = "connection reset"
  /\ opc' = "done"
  /\ queryErr' = Error(<<"stream error: ", "connection reset">>)
  /\ UNCHANGED <<mgrVars, hasManager, iteration, messages, toolDefs, contentBuffer,
                 toolCalls, callIdx, sent, chunks, received, attempts>>

\* Line 404.
Runnable(call) == call.Type = "function" /\ call.Function.Name # ""

\* Lines 454-462: what executeToolCall returns before it reaches the manager.
ExecuteToolCall_Early(call) ==
  IF ~hasManager
  THEN [text |-> <<>>, err |-> Error(<<"tool manager not set">>)]
  ELSE [text |-> <<>>,
        err |-> Error(<<"failed to parse tool arguments: ">>
                        \o Unmarshal(call.Function.Arguments).err.text)]

\* A faulty variant: a failed result is returned as executeToolCall's error text
\* but without the tool's error.
ExecuteToolCall_Late_DropError(r) ==
  IF ~r.err.isNil
  THEN [text |-> <<>>, err |-> Error(<<"failed to execute tool: ">> \o r.err.text)]
  ELSE IF ~r.result.Success
    THEN [text |-> <<"Tool execution failed: ">>, err |-> NilError]
  ELSE IF ~MarshalIndent(r.result.Result).err.isNil
    THEN [text |-> <<"Tool result: ", r.result.Result>>, err |-> NilError]
  ELSE [text |-> MarshalIndent(r.result.Result).text, err |-> NilError]

\* Lines 465-481: what executeToolCall returns once ExecuteTool returned r.
ExecuteToolCall_Late(r) ==
  IF ~r.err.isNil
  THEN [text |-> <<>>, err |-> Error(<<"failed to execute tool: ">> \o r.err.text)]
  ELSE IF ~r.result.Success
    THEN [text |-> <<"Tool execution failed: ">> \o r.result.Error, err |-> NilError]
  ELSE IF ~MarshalIndent(r.result.Result).err.isNil
    THEN [text |-> <<"Tool result: ", r.result.Result>>, err |-> NilError]
  ELSE [text |-> MarshalIndent(r.result.Result).text, err |-> NilError]

\* Lines 412-425: the tool-role reply to call, from what executeToolCall returned.
ToolReply(call, x) ==
  Message("tool",
          IF ~x.err.isNil THEN <<"Error: ">> \o x.err.text ELSE x.text,
          <<>>,
          call.ID)

\* Lines 403-404: a tool call whose type is not "function" or whose name is
\* empty is passed over.
Dispatch_Skip ==
  /\ opc = "dispatch"
  /\ callIdx <= Len(toolCalls)
  /\ ~Runnable(toolCalls[callIdx])
  /\ callIdx' = callIdx + 1
  /\ UNCHANGED <<mgrVars, hasManager, opc, iteration, messages, toolDefs,
                 contentBuffer, toolCalls, recvErr, queryErr, sent, chunks, received,
                 attempts>>

\* A faulty variant: executeToolCall's error ends the query.
Dispatch_Fail_Abort ==
  /\ opc = "dispatch"
  /\ callIdx <= Len(toolCalls)
  /\ Runnable(toolCalls[callIdx])
  /\ ~hasManager \/ ~Unmarshal(toolCalls[callIdx].Function.Arguments).err.isNil
  /\ attempts' = Append(attempts, callIdx)
  /\ opc' = "done"
  /\ queryErr' = ExecuteToolCall_Early(toolCalls[callIdx]).err
  /\ UNCHANGED <<mgrVars, hasManager, iteration, messages, toolDefs, contentBuffer,
                 toolCalls, callIdx, recvErr, sent, chunks, received>>

\* Lines 412-425, 454-462: executeToolCall fails before it reaches the
\* manager; its error is the reply.
Dispatch_Fail ==
  /\ opc = "dispatch"
  /\ callIdx <= Len(toolCalls)
  /\ Runnable(toolCalls[callIdx])
  /\ ~hasManager \/ ~Unmarshal(toolCalls[callIdx].Function.Arguments).err.isNil
  /\ attempts' = Append(attempts, callIdx)
  /\ messages' = Append(messages, ToolReply(toolCalls[callIdx],
                                            ExecuteToolCall_Early(toolCalls[callIdx])))
  /\ callIdx' = callIdx + 1
  /\ UNCHANGED <<mgrVars, hasManager, opc, iteration, toolDefs, contentBuffer,
                 toolCalls, recvErr, queryErr, sent, chunks, received>>

\* Lines 412, 459-465: executeToolCall parses the arguments and calls ExecuteTool.
Dispatch_Execute ==
  /\ opc = "dispatch"
  /\ callIdx <= Len(toolCalls)
  /\ Runnable(toolCalls[callIdx])
  /\ hasManager
  /\ Unmarshal(toolCalls[callIdx].Function.Arguments).err.isNil
  /\ ExecuteTool_RLock(Orch, toolCalls[callIdx].Function.Name,
                       Unmarshal(toolCalls[callIdx].Function.Arguments).params)
  /\ attempts' = Append(attempts, callIdx)
  /\ opc' = "ExecuteTool"
  /\ UNCHANGED <<hasManager, iteration, messages, toolDefs, contentBuffer, toolCalls,
                 callIdx, recvErr, queryErr, sent, chunks, received>>

\* A faulty variant: a failed tool result ends the query.
Dispatch_Reply_Abort ==
  /\ opc = "ExecuteTool"
  /\ pc[Orch] = "idle"
  /\ IF ret[Orch].result.Success
     THEN /\ messages' = Append(messages, ToolReply(toolCalls[callIdx],
                                                    ExecuteToolCall_Late(ret[Orch])))
          /\ callIdx' = callIdx + 1
          /\ opc' = "dispatch"
          /\ UNCHANGED queryErr
     ELSE /\ opc' = "done"
          /\ queryErr' = Error(ret[Orch].result.Error)
          /\ UNCHANGED <<messages, callIdx>>
  /\ UNCHANGED <<mgrVars, hasManager, iteration, toolDefs, contentBuffer, toolCalls,
                 recvErr, sent, chunks, received, attempts>>

\* A faulty variant: the loop goes on to the next call without the reply.
Dispatch_Reply_Dropped ==
  /\ opc = "ExecuteTool"
  /\ pc[Orch] = "idle"
  /\ messages' = messages
  /\ callIdx' = callIdx + 1
  /\ opc' = "dispatch"
  /\ UNCHANGED <<mgrVars, hasManager, iteration, toolDefs, contentBuffer, toolCalls,
                 recvErr, queryErr, sent, chunks, received, attempts>>

\* Lines 412-425, 465-481: ExecuteTool has returned; the reply is appended.
Dispatch_Reply ==
  /\ opc = "ExecuteTool"
  /\ pc[Orch] = "idle"
  /\ messages' = Append(messages, ToolReply(toolCalls[callIdx],
                                            ExecuteToolCall_Late(ret[Orch])))
  /\ callIdx' = callIdx + 1
  /\ opc' = "dispatch"
  /\ UNCHANGED <<mgrVars, hasManager, iteration, toolDefs, contentBuffer, toolCalls,
                 recvErr, queryErr, sent, chunks, received, attempts>>

\* Lines 403, 428, 309: the range loop is over; iteration++.
Dispatch_End ==
  /\ opc = "dispatch"
  /\ callIdx > Len(toolCalls)
  /\ iteration' = iteration + 1
  /\ opc' = "loop"
  /\ UNCHANGED <<mgrVars, hasManager, messages, toolDefs, contentBuffer, toolCalls,
                 callIdx, recvErr, queryErr, sent, chunks, received, attempts>>

----------------------------------------------------------------------------
(* What the model provider may stream *)

MaxChunks == 3

MaxCapChunks == 5

MaxFragments == 3

\* Whole tool calls, one per response: a call of a registered tool, one whose
\* arguments carry a __work_dir__ entry, one of an unregistered tool, one
\* whose argument text is cut short, a second call at index 1, a call that
\* comes without an identifier, and plain text.
LoopResponses ==
  { Response("text", <<>>),
    Response("", <<Fragment(<<0>>, "call_a", "function", "read_file",
                            <<"{", "target_file:a.txt", "}">>)>>),
    Response("", <<Fragment(<<0>>, "call_a", "function", "read_file",
                            <<"{", "__work_dir__:/evil", "}">>)>>),
    Response("", <<Fragment(<<0>>, "call_a", "function", "edit_file",
                            <<"{", "}">>)>>),
    Response("", <<Fragment(<<0>>, "call_a", "function", "read_file",
                            <<"{", "target_file:a.txt">>)>>),
    Response("", <<Fragment(<<1>>, "call_b", "function", "read_file",
                            <<"{", "}">>)>>),
    Response("", <<Fragment(<<0>>, "", "", "read_file", <<"{", "}">>)>>) }

\* A model that asks for a tool in every round: a whole call of a registered
\* tool, or a call at index 1 whose argument text is cut short.
CapResponses ==
  { Response("", <<Fragment(<<0>>, "call_a", "function", "read_file",
                            <<"{", "}">>)>>),
    Response("", <<Fragment(<<1>>, "call_b", "function", "read_file",
                            <<"{">>)>>) }

CapOutcomes ==
  { [Result |-> "result", Err |-> NilError],
    [Result |-> "nil", Err |-> Error(<<"boom">>)] }

\* Tool calls streamed in pieces, one fragment per response, at a nil index
\* or at index 0 or 1: the head of a call (identifier, type and name), a
\* piece of argument text, an identifier alone (with and without a type), a
\* name alone, a whole call; and responses with text, with two fragments,
\* and with no choice.
StreamIndexes == {<<>>, <<0>>, <<1>>}

StreamFragments ==
  UNION { { Fragment(i, "call_a", "function", "read_file", <<>>),
            Fragment(i, "call_b", "function", "edit_file", <<>>),
            Fragment(i, "", "", "", <<"{">>),
            Fragment(i, "", "", "", <<"}">>),
            Fragment(i, "call_b", "", "", <<>>),
            Fragment(i, "", "", "edit_file", <<>>),
            Fragment(i, "call_a", "function", "read_file", <<"{", "}">>) }
          : i \in StreamIndexes }

StreamResponses ==
  { Response("", <<f>>) : f \in StreamFragments }
    \cup { Response("text", <<>>),
           NoChoices,
           Response("text", << Fragment(<<1>>, "call_b", "function", "edit_file", <<"{">>),
                               Fragment(<<0>>, "call_a", "function", "read_file", <<"{">>) >>) }

----------------------------------------------------------------------------
(* The manager called by concurrent threads *)

MgrNext ==
  /\ UNCHANGED toolVars
  /\ \/ \E t \in Workers, d \in Dirs : SetWorkDirectory_Lock(t, d) /\ UNCHANGED orchVars
     \/ \E t \in Workers : SetWorkDirectory_Body(t) /\ UNCHANGED orchVars
     \/ \E t \in Workers : GetWorkDirectory_RLock(t) /\ UNCHANGED orchVars
     \/ \E t \in Workers : GetWorkDirectory_Body(t) /\ UNCHANGED orchVars
     \/ \E t \in Workers, n \in Names, tl \in ToolValues : RegisterTool_Lock(t, n, tl) /\ UNCHANGED orchVars
     \/ \E t \in Workers : RegisterTool_Body(t) /\ UNCHANGED orchVars
     \/ \E t \in Workers, n \in Names : GetTool_RLock(t, n) /\ UNCHANGED orchVars
     \/ \E t \in Workers : GetTool_Body(t) /\ UNCHANGED orchVars
     \/ \E t \in Workers : ListTools_RLock(t) /\ UNCHANGED orchVars
     \/ \E t \in Workers : ListTools_Body(t) /\ UNCHANGED orchVars
     \/ \E t \in Workers, n \in Names, p \in CallerParams : ExecuteTool_RLock(t, n, p) /\ UNCHANGED orchVars
     \/ \E t \in Workers : ExecuteTool_Lookup(t) /\ UNCHANGED orchVars
     \/ \E t \in Workers, out \in FnOutcomes : ExecuteTool_Return(t, out) /\ UNCHANGED orchVars

MgrInit == NewDefaultToolManager /\ NewClient /\ hasManager = TRUE /\ NoFiles

SpecMgr == MgrInit /\ [][MgrNext]_vars

\* RegisterTool calls that wait for the lock while other calls are under way.
RaceNext ==
  /\ UNCHANGED <<toolVars, orchVars>>
  /\ \/ \E t \in Workers, n \in Names, tl \in ToolValues : RegisterTool_Call(t, n, tl)
     \/ \E t \in Workers : RegisterTool_Acquire(t)
     \/ \E t \in Workers : RegisterTool_Body(t)
     \/ \E t \in Workers, n \in Names : GetTool_RLock(t, n)
     \/ \E t \in Workers : GetTool_Body(t)

SpecRace == MgrInit /\ [][RaceNext]_vars

----------------------------------------------------------------------------
(* One query of the client, with the tools of the repository registered *)

\* cmd/root.go: RegisterDefaultTools, SetDefaultWorkDirectory, NewClient and
\* SetToolManager; a Client whose SetToolManager was not called has none.
LoopInit ==
  /\ tools = ("read_file" :> [Schema |-> "schemaA", Function |-> "fnA"])
  /\ firstReg = tools
  /\ workDir = "/work"
  /\ mu = [writer |-> NoThread, readers |-> {}]
  /\ pc = [t \in Threads |-> "idle"]
  /\ local = [t \in Threads |-> NoLocal]
  /\ ret = [t \in Threads |-> NoRet]
  /\ NewClient
  /\ hasManager \in BOOLEAN
  /\ NoFiles

\* Up to MaxChunks responses of any kind; the round cap is out of their reach.
LoopNext ==
  /\ UNCHANGED toolVars
  /\ \/ Query_Start
     \/ Query_ListTools
     \/ CreateStream_Fail
     \/ CreateStream_OK
     \/ chunks < MaxChunks /\ \E r \in LoopResponses : Recv_Response(r)
     \/ Recv_EOF
     \/ Recv_Error
     \/ Dispatch_Skip
     \/ Dispatch_Fail
     \/ Dispatch_Execute
     \/ opc = "ExecuteTool" /\ ExecuteTool_Lookup(Orch) /\ UNCHANGED orchVars
     \/ opc = "ExecuteTool" /\ \E out \in FnOutcomes :
          ExecuteTool_Return(Orch, out) /\ UNCHANGED orchVars
     \/ Dispatch_Reply
     \/ Dispatch_End

SpecLoop == LoopInit /\ [][LoopNext]_vars

\* Up to MaxCapChunks responses of a model that asks for a tool in every round.
CapNext ==
  /\ UNCHANGED toolVars
  /\ \/ Query_Start
     \/ Query_ListTools
     \/ Loop_Cap
     \/ CreateStream_Fail
     \/ CreateStream_OK
     \/ chunks < MaxCapChunks /\ \E r \in CapResponses : Recv_Response(r)
     \/ Recv_EOF
     \/ Recv_Error
     \/ Dispatch_Skip
     \/ Dispatch_Fail
     \/ Dispatch_Execute
     \/ opc = "ExecuteTool" /\ ExecuteTool_Lookup(Orch) /\ UNCHANGED orchVars
     \/ opc = "ExecuteTool" /\ \E out \in CapOutcomes :
          ExecuteTool_Return(Orch, out) /\ UNCHANGED orchVars
     \/ Dispatch_Reply
     \/ Dispatch_End

SpecCap == LoopInit /\ [][CapNext]_vars

\* The stream of the first round, up to MaxFragments responses in pieces.
StreamNext ==
  /\ UNCHANGED toolVars
  /\ \/ Query_Start
     \/ Query_ListTools
     \/ CreateStream_Fail
     \/ CreateStream_OK
     \/ chunks < MaxFragments /\ \E r \in StreamResponses : Recv_Response(r)
     \/ Recv_EOF
     \/ Recv_Error

SpecStream == LoopInit /\ [][StreamNext]_vars

----------------------------------------------------------------------------
(* The tools: interface values, strings, paths and the filesystem *)

\* The interface{} values of a params map that the tools look at: a string
\* (its pieces in s), a bool (in b) or a JSON number (float64, in n).
Str(s) == [type |-> "string", s |-> s, b |-> FALSE, n |-> 0]

Bool(b) == [type |-> "bool", s |-> <<>>, b |-> b, n |-> 0]

Num(n) == [type |-> "float64", s |-> <<>>, b |-> FALSE, n |-> n]

Has(params, key) == key \in DOMAIN params.m

\* v, ok := params[key].(string)
IsString(params, key) == Has(params, key) /\ params.m[key].type = "string"

StringOf(params, key) == IF IsString(params, key) THEN params.m[key].s ELSE <<>>

\* v, _ := params[key].(bool)
BoolOf(params, key) ==
  IF Has(params, key) /\ params.m[key].type = "bool" THEN params.m[key].b ELSE FALSE

\* The type switch over float64, int and int64; any other type leaves 0.
IntOf(params, key) ==
  IF Has(params, key) /\ params.m[key].type \in {"float64", "int", "int64"}
  THEN params.m[key].n
  ELSE 0

\* strings.HasPrefix, strings.Contains and strings.ToLower on sequences of pieces.
HasPrefix(s, prefix) ==
  Len(prefix) <= Len(s) /\ SubSeq(s, 1, Len(prefix)) = prefix

Contains(s, sub) ==
  \E i \in 1..(Len(s) - Len(sub) + 1) : SubSeq(s, i, i + Len(sub) - 1) = sub

LowerOf == (".EXE" :> ".exe") @@ ("X" :> "x")

ToLower(s) == [i \in DOMAIN s |-> IF s[i] \in DOMAIN LowerOf THEN LowerOf[s[i]] ELSE s[i]]

\* Paths are sequences of pieces: the separator, names, and extensions, which
\* are the pieces that start with a dot.  No path here has a "." or ".."
\* element or a doubled separator, so filepath.Clean changes none of them.
Sep == "/"

ExtPieces == {".txt", ".exe", ".EXE", ".ini", ".sys", ".DS_Store"}

\* The directory the process runs in (os.Getwd).
Cwd == <<Sep, "work">>

IsAbs(p) == Len(p) > 0 /\ p[1] = Sep

Join(dir, p) == dir \o <<Sep>> \o p

\* filepath.Abs
Abs(p) == IF IsAbs(p) THEN p ELSE Join(Cwd, p)

LastSep(p) ==
  IF \E i \in DOMAIN p : p[i] = Sep
  THEN CHOOSE i \in DOMAIN p : p[i] = Sep /\ \A j \in DOMAIN p : p[j] = Sep => j <= i
  ELSE 0

\* filepath.Dir, filepath.Base and filepath.Ext of a path that names a file.
Dir(p) ==
  IF LastSep(p) = 0 THEN <<".">>
  ELSE IF LastSep(p) = 1 THEN <<Sep>>
  ELSE SubSeq(p, 1, LastSep(p) - 1)

Base(p) == SubSeq(p, LastSep(p) + 1, Len(p))

Ext(p) == IF Len(p) > 0 /\ p[Len(p)] \in ExtPieces THEN <<p[Len(p)]>> ELSE <<>>

\* The filesystem maps the absolute paths that exist to a directory or to a
\* file with its bytes.
DirEntry == [kind |-> "dir", bytes |-> <<>>]

FileEntry(bytes) == [kind |-> "file", bytes |-> bytes]

\* What the kernel resolves a path to: relative paths start at Cwd.
Resolve(p) == IF p = <<".">> THEN Cwd ELSE Abs(p)

\* The root, and the path up to each of its elements.
Ancestors(p) ==
  {<<Sep>>} \cup
  { SubSeq(p, 1, i) : i \in { j \in DOMAIN p : p[j] # Sep /\ (j = Len(p) \/ p[j + 1] = Sep) } }

\* A path can be reached when every element before its last is a directory.
Reachable(d, p) ==
  \A q \in Ancestors(p) \ {p} : q \in DOMAIN d /\ d[q].kind = "dir"

\* The environment of one tool function call: the operating system call that
\* fails for a reason outside the filesystem modelled here, if any.
IOFaults ==
  {"none", "stat", "mkdir", "write", "remove", "open", "read", "create", "start", "exit"}

\* os.Stat: nil, an error that os.IsNotExist accepts, or another error.
Stat(d, path, io) ==
  LET p == Resolve(path)
  IN  IF io = "stat" THEN [err |-> "other", isDir |-> FALSE, size |-> 0]
      ELSE IF ~Reachable(d, p) /\ \E q \in Ancestors(p) \ {p} : q \in DOMAIN d /\ d[q].kind = "file"
      THEN [err |-> "other", isDir |-> FALSE, size |-> 0]
      ELSE IF p \notin DOMAIN d \/ ~Reachable(d, p)
      THEN [err |-> "notexist", isDir |-> FALSE, size |-> 0]
      ELSE [err |-> "nil", isDir |-> d[p].kind = "dir", size |-> Len(d[p].bytes)]

\* os.MkdirAll: every missing directory on the way is made.
MkdirAll(d, path, io) ==
  LET p == Resolve(path)
  IN  IF io = "mkdir" \/ \E q \in Ancestors(p) : q \in DOMAIN d /\ d[q].kind = "file"
      THEN [err |-> <<"mkdir ", "failed">>, disk |-> d]
      ELSE [err |-> <<>>,
            disk |-> [q \in DOMAIN d \cup Ancestors(p) |->
                        IF q \in DOMAIN d THEN d[q] ELSE DirEntry]]

\* os.WriteFile and os.Create followed by writes: the file holds the bytes.
WriteFile(d, path, bytes, io) ==
  LET p == Resolve(path)
  IN  IF \/ io \in {"write", "create"}
         \/ ~Reachable(d, p)
         \/ (p \in DOMAIN d /\ d[p].kind = "dir")
      THEN [err |-> <<"open ", "failed">>, disk |-> d]
      ELSE [err |-> <<>>,
            disk |-> [q \in DOMAIN d \cup {p} |-> IF q = p THEN FileEntry(bytes) ELSE d[q]]]

\* os.Remove of a file.
Remove(d, path, io) ==
  LET p == Resolve(path)
  IN  IF io = "remove" \/ p \notin DOMAIN d \/ d[p].kind = "dir"
      THEN [err |-> <<"remove ", "failed">>, disk |-> d]
      ELSE [err |-> <<>>, disk |-> [q \in DOMAIN d \ {p} |-> d[q]]]

\* os.Open, and the bytes a bufio.Scanner over the file reads; err names the
\* call that failed ("open" or "read").
ReadFile(d, path, io) ==
  LET p == Resolve(path)
  IN  IF io = "open" \/ p \notin DOMAIN d \/ ~Reachable(d, p)
      THEN [err |-> "open", bytes |-> <<>>]
      ELSE IF io = "read" \/ d[p].kind = "dir"
      THEN [err |-> "read", bytes |-> <<>>]
      ELSE [err |-> "nil", bytes |-> d[p].bytes]

\* bufio.Scanner with ScanLines: the lines between newlines, each without a
\* trailing carriage return; a last line without a newline counts.
DropCR(line) ==
  IF Len(line) > 0 /\ line[Len(line)] = "\r"
  THEN SubSeq(line, 1, Len(line) - 1)
  ELSE line

ScanLines(bytes) ==
  LET n == Len(bytes)
      nl == SelectSeq([i \in 1..n |-> i], LAMBDA i : bytes[i] = "\n")
      ends == IF n > 0 /\ bytes[n] # "\n" THEN Append(nl, n + 1) ELSE nl
  IN  [k \in 1..Len(ends) |->
         DropCR(SubSeq(bytes, IF k = 1 THEN 1 ELSE ends[k - 1] + 1, ends[k] - 1))]

\* strings.Join(lines[lo..hi], "\n")
RECURSIVE JoinLines(_, _, _)
JoinLines(lines, lo, hi) ==
  IF lo > hi THEN <<>>
  ELSE IF lo = hi THEN lines[lo]
  ELSE LET mid == (lo + hi) \div 2
       IN  JoinLines(lines, lo, mid) \o <<"\n">> \o JoinLines(lines, mid + 1, hi)

\* A faulty variant: the last occurrence is replaced.
ReplaceFirst_Last(s, old, new) ==
  IF ~Contains(s, old) THEN s
  ELSE LET i == CHOOSE i \in 1..Len(s) :
                  /\ SubSeq(s, i, i + Len(old) - 1) = old
                  /\ \A j \in (i + 1)..Len(s) : SubSeq(s, j, j + Len(old) - 1) # old
       IN  SubSeq(s, 1, i - 1) \o new \o SubSeq(s, i + Len(old), Len(s))

\* strings.Replace(s, old, new, 1) for a non-empty old.
ReplaceFirst(s, old, new) ==
  IF ~Contains(s, old) THEN s
  ELSE LET i == CHOOSE i \in 1..Len(s) :
                  /\ SubSeq(s, i, i + Len(old) - 1) = old
                  /\ \A j \in 1..(i - 1) : SubSeq(s, j, j + Len(old) - 1) # old
       IN  SubSeq(s, 1, i - 1) \o new \o SubSeq(s, i + Len(old), Len(s))

\* The position of the first element of list that P accepts, or 0.
FirstIndex(list, P(_)) ==
  IF \E i \in DOMAIN list : P(list[i])
  THEN CHOOSE i \in DOMAIN list : P(list[i]) /\ \A j \in 1..(i - 1) : ~P(list[j])
  ELSE 0

\* What a tool function returns, with the filesystem it leaves.
Fail(text, d) == [out |-> [Result |-> "nil", Err |-> Error(text)], disk |-> d]

Done(result, d) == [out |-> [Result |-> result, Err |-> NilError], disk |-> d]

\* The path resolution every tool starts with.
ResolveTarget(target, dir) ==
  IF IsAbs(target) THEN target
  ELSE IF dir # <<>> THEN Join(dir, target)
  ELSE target

----------------------------------------------------------------------------
(* write_file and delete_file *)

DangerousExtensions ==
  <<".exe", ".dll", ".sys", ".bat", ".cmd", ".com", ".scr",
    ".pif", ".application", ".gadget", ".msi", ".msp", ".msc">>

DangerousChars == <<"<", ">", ":", "\"", "|", "?", "*">>

WriteDangerousPaths ==
  << <<Sep, "etc">>, <<Sep, "bin">>, <<Sep, "sbin">>, <<Sep, "usr", Sep, "bin">>,
     <<Sep, "usr", Sep, "sbin">>, <<Sep, "boot">>, <<Sep, "sys">>, <<Sep, "proc">>,
     <<Sep, "dev">>, <<"C:\\Windows">>, <<"C:\\Program Files">>,
     <<"C:\\Program Files (x86)">>, <<"C:\\System32">> >>

WriteSystemFiles ==
  << <<"boot", ".ini">>, <<"ntldr">>, <<"bootmgr">>, <<"pagefile", ".sys">>,
     <<"hiberfil", ".sys">>, <<"autoexec", ".bat">>, <<"config", ".sys">> >>

\* A faulty variant: nothing is checked.
performWriteSecurityChecks_Off(filePath) == NilError

\* performWriteSecurityChecks: the error of the first check that trips.
performWriteSecurityChecks(filePath) ==
  LET absPath == Abs(filePath)
      ext == ToLower(Ext(filePath))
      fileName == Base(filePath)
      path == FirstIndex(WriteDangerousPaths, LAMBDA dp : HasPrefix(absPath, dp))
      extension == FirstIndex(DangerousExtensions, LAMBDA de : ext = <<de>>)
      system == FirstIndex(WriteSystemFiles, LAMBDA sf : ToLower(fileName) = sf)
      char == FirstIndex(DangerousChars, LAMBDA c : Contains(fileName, <<c>>))
  IN  IF path # 0
      THEN Error(<<"cannot write files to system directory: ">> \o WriteDangerousPaths[path])
      ELSE IF extension # 0
      THEN Error(<<"cannot create potentially dangerous file type: ">> \o ext)
      ELSE IF system # 0
      THEN Error(<<"cannot create system file: ">> \o WriteSystemFiles[system])
      ELSE IF char # 0
      THEN Error(<<"filename contains dangerous character: ", DangerousChars[char]>>)
      ELSE NilError

DeleteDangerousPaths ==
  << <<Sep, "etc">>, <<Sep, "bin">>, <<Sep, "sbin">>, <<Sep, "usr", Sep, "bin">>,
     <<Sep, "usr", Sep, "sbin">>, <<Sep, "boot">>, <<Sep, "sys">>, <<Sep, "proc">>,
     <<"C:\\Windows">>, <<"C:\\Program Files">>, <<"C:\\Program Files (x86)">> >>

DeleteSystemFiles ==
  << <<"boot", ".ini">>, <<"ntldr">>, <<"bootmgr">>, <<"pagefile", ".sys">>,
     <<"hiberfil", ".sys">>, <<".DS_Store">>, <<"Thumbs", ".db">>, <<"desktop", ".ini">> >>

\* performSecurityChecks of delete_file.
performSecurityChecks(filePath) ==
  LET absPath == Abs(filePath)
      ext == Ext(filePath)
      fileName == Base(filePath)
      path == FirstIndex(DeleteDangerousPaths, LAMBDA dp : HasPrefix(absPath, dp))
      extension == FirstIndex(DangerousExtensions, LAMBDA de : ext = <<de>>)
      system == FirstIndex(DeleteSystemFiles, LAMBDA sf : fileName = sf)
  IN  IF path # 0
      THEN Error(<<"cannot delete files in system directory: ">> \o DeleteDangerousPaths[path])
      ELSE IF extension # 0
      THEN Error(<<"cannot delete potentially dangerous file type: ">> \o ext)
      ELSE IF system # 0
      THEN Error(<<"cannot delete system file: ">> \o DeleteSystemFiles[system])
      ELSE NilError

\* A faulty variant: an existing file is always written over.
OverwriteRefused_Never(fileExists, overwrite) == FALSE

\* Line 70.
OverwriteRefused(fileExists, overwrite) == fileExists /\ ~overwrite

\* writeFileFunction
writeFileFunction(params, d, io) ==
  LET targetFile == StringOf(params, "target_file")
      content == StringOf(params, "content")
      overwrite == BoolOf(params, "overwrite")
      filePath == ResolveTarget(targetFile, StringOf(params, WorkDirKey))
      fileExists == Stat(d, filePath, io).err = "nil"
      result == [TargetFile |-> filePath, Written |-> FALSE, Created |-> FALSE,
                 BytesWritten |-> 0, Message |-> <<>>, FileExists |-> fileExists]
      check == performWriteSecurityChecks(filePath)
      mkdir == MkdirAll(d, Dir(filePath), io)
      write == WriteFile(mkdir.disk, filePath, content, io)
  IN  IF ~IsString(params, "target_file") \/ targetFile = <<>>
      THEN Fail(<<"target_file is required">>, d)
      ELSE IF ~IsString(params, "content")
      THEN Fail(<<"content is required">>, d)
      ELSE IF OverwriteRefused(fileExists, overwrite)
      THEN Done([result EXCEPT !.Message = <<"File exists and overwrite is not enabled">>], d)
      ELSE IF ~check.isNil
      THEN Done([result EXCEPT !.Message = <<"Security check failed: ">> \o check.text], d)
      ELSE IF mkdir.err # <<>>
      THEN Done([result EXCEPT !.Message = <<"Failed to create directory: ">> \o mkdir.err],
                mkdir.disk)
      ELSE IF write.err # <<>>
      THEN Done([result EXCEPT !.Message = <<"Failed to write file: ">> \o write.err],
                write.disk)
      ELSE Done([result EXCEPT
                   !.Written = TRUE,
                   !.Created = ~fileExists,
                   !.BytesWritten = Len(content),
                   !.Message = IF fileExists
                               THEN <<"File overwritten successfully with ", ToString(Len(content)), " bytes">>
                               ELSE <<"File created successfully with ", ToString(Len(content)), " bytes">>],
                write.disk)

\* deleteFileFunction
deleteFileFunction(params, d, io) ==
  LET targetFile == StringOf(params, "target_file")
      filePath == ResolveTarget(targetFile, StringOf(params, WorkDirKey))
      info == Stat(d, filePath, io)
      result == [TargetFile |-> filePath, Deleted |-> FALSE, Message |-> <<>>,
                 FileInfo |-> <<>>]
      withInfo == [result EXCEPT !.FileInfo = <<"File with ", ToString(info.size), " bytes">>]
      check == performSecurityChecks(filePath)
      remove == Remove(d, filePath, io)
  IN  IF ~IsString(params, "target_file") \/ targetFile = <<>>
      THEN Fail(<<"target_file is required">>, d)
      ELSE IF info.err = "notexist"
      THEN Done([result EXCEPT !.Message = <<"File does not exist">>], d)
      ELSE IF info.err # "nil"
      THEN Done([result EXCEPT !.Message = <<"Failed to access file: ", "stat failed">>], d)
      ELSE IF info.isDir
      THEN Done([result EXCEPT
                   !.FileInfo = <<"Directory with ", ToString(info.size), " bytes">>,
                   !.Message = <<"Cannot delete directories with this tool">>], d)
      ELSE IF ~check.isNil
      THEN Done([withInfo EXCEPT !.Message = <<"Security check failed: ">> \o check.text], d)
      ELSE IF remove.err # <<>>
      THEN Done([withInfo EXCEPT !.Message = <<"Failed to delete file: ">> \o remove.err],
                remove.disk)
      ELSE Done([withInfo EXCEPT !.Deleted = TRUE, !.Message = <<"File successfully deleted">>],
                remove.disk)

----------------------------------------------------------------------------
(* read_file, search_replace, list_dir and run_terminal_cmd *)

\* A faulty variant: a range of 250 lines is refused too.
TooManyLines_AtLimit(lineCount) == lineCount >= 250

\* The limit on the lines of one ranged read.
TooManyLines(lineCount) == lineCount > 250

\* A faulty variant: a short range is never refused.
TooFewLines_Never(lineCount, totalLines, endLineInt) == FALSE

\* The minimum of one ranged read that omits the end of a long file.
TooFewLines(lineCount, totalLines, endLineInt) ==
  lineCount < 200 /\ totalLines >= 200 /\ endLineInt < totalLines

\* readFileFunction
readFileFunction(params, d, io) ==
  LET targetFile == StringOf(params, "target_file")
      shouldReadEntireFile == BoolOf(params, "should_read_entire_file")
      startLine == IntOf(params, "start_line_one_indexed")
      endLine == IntOf(params, "end_line_one_indexed_inclusive")
      filePath == ResolveTarget(targetFile, StringOf(params, WorkDirKey))
      file == ReadFile(d, filePath, io)
      lines == ScanLines(file.bytes)
      totalLines == Len(lines)
      result == [Content |-> <<>>, TotalLines |-> totalLines, StartLine |-> 0,
                 EndLine |-> 0, FilePath |-> filePath, LinesNotShown |-> <<>>,
                 ReadEntireFile |-> shouldReadEntireFile]
      startLineInt == IF startLine < 1 THEN 1 ELSE startLine
      endLineInt == IF endLine > totalLines THEN totalLines ELSE endLine
      lineCount == endLineInt - startLineInt + 1
      suggestedEnd == IF startLineInt + 199 > totalLines THEN totalLines
                      ELSE startLineInt + 199
      before == IF startLineInt > 1
                THEN <<"Lines 1-", ToString(startLineInt - 1), " not shown">>
                ELSE <<>>
      after == IF endLineInt < totalLines
               THEN <<"Lines ", ToString(endLineInt + 1), "-", ToString(totalLines),
                      " not shown">>
               ELSE <<>>
  IN  IF ~IsString(params, "target_file") \/ targetFile = <<>>
      THEN Fail(<<"target_file is required">>, d)
      ELSE IF Stat(d, filePath, io).err = "notexist"
      THEN Fail(<<"file not found: ">> \o filePath, d)
      ELSE IF file.err = "open"
      THEN Fail(<<"failed to open file: ", "open failed">>, d)
      ELSE IF file.err = "read"
      THEN Fail(<<"failed to read file: ", "read failed">>, d)
      ELSE IF shouldReadEntireFile
      THEN Done([result EXCEPT !.Content = JoinLines(lines, 1, totalLines),
                               !.StartLine = 1,
                               !.EndLine = totalLines], d)
      ELSE IF endLine < startLineInt
      THEN Fail(<<"end_line (", ToString(endLine), ") must be >= start_line (",
                  ToString(startLineInt), ")">>, d)
      ELSE IF startLineInt > totalLines
      THEN Fail(<<"start_line (", ToString(startLineInt), ") exceeds total lines (",
                  ToString(totalLines), ")">>, d)
      ELSE IF TooManyLines(lineCount)
      THEN Fail(<<"cannot read more than 250 lines at once (requested: ",
                  ToString(lineCount), ")">>, d)
      ELSE IF TooFewLines(lineCount, totalLines, endLineInt)
      THEN Fail(<<"minimum 200 lines required when file has >= 200 lines. Consider reading lines ",
                  ToString(startLineInt), "-", ToString(suggestedEnd)>>, d)
      ELSE Done([result EXCEPT
                   !.Content = JoinLines(lines, startLineInt, endLineInt),
                   !.StartLine = startLineInt,
                   !.EndLine = endLineInt,
                   !.LinesNotShown = IF before # <<>> /\ after # <<>>
                                     THEN before \o <<"; ">> \o after
                                     ELSE before \o after], d)

\* writeLinesToFile: os.Create, then every line followed by a newline; the
\* errors of the writes and of the Flush are dropped.
writeLinesToFile(d, filePath, lines, io) ==
  WriteFile(d, filePath,
            IF io = "write" \/ Len(lines) = 0 THEN <<>>
            ELSE JoinLines(lines, 1, Len(lines)) \o <<"\n">>,
            IF io = "create" THEN "create" ELSE "none")

\* A faulty variant: the first line is taken when no line holds the substring.
FoundLine_OrFirst(lines, oldString) ==
  IF \E k \in DOMAIN lines : Contains(lines[k], oldString)
  THEN FirstIndex(lines, LAMBDA line : Contains(line, oldString))
  ELSE IF Len(lines) > 0 THEN 1 ELSE 0

\* The 1-indexed number of the first scanned line that holds oldString, or 0.
FoundLine(lines, oldString) ==
  FirstIndex(lines, LAMBDA line : Contains(line, oldString))

\* searchReplaceFunction
searchReplaceFunction(params, d, io) ==
  LET filePath == StringOf(params, "file_path")
      oldString == StringOf(params, "old_string")
      newString == StringOf(params, "new_string")
      targetPath == ResolveTarget(filePath, StringOf(params, WorkDirKey))
      result == [FilePath |-> targetPath, OldString |-> oldString,
                 NewString |-> newString, Replaced |-> FALSE, LineNumber |-> 0,
                 OriginalLine |-> <<>>, NewLine |-> <<>>, Message |-> <<>>]
      file == ReadFile(d, targetPath, io)
      lines == ScanLines(file.bytes)
      foundLine == FoundLine(lines, oldString)
      newLine == ReplaceFirst(lines[foundLine], oldString, newString)
      written == writeLinesToFile(d, targetPath, [lines EXCEPT ![foundLine] = newLine], io)
  IN  IF ~IsString(params, "file_path") \/ filePath = <<>>
      THEN Fail(<<"file_path is required">>, d)
      ELSE IF ~IsString(params, "old_string") \/ oldString = <<>>
      THEN Fail(<<"old_string is required">>, d)
      ELSE IF ~IsString(params, "new_string")
      THEN Fail(<<"new_string is required">>, d)
      ELSE IF Stat(d, targetPath, io).err = "notexist"
      THEN Done([result EXCEPT !.Message = <<"File not found: ">> \o targetPath], d)
      ELSE IF file.err = "open"
      THEN Fail(<<"failed to open file: ", "open failed">>, d)
      ELSE IF file.err = "read"
      THEN Fail(<<"failed to read file: ", "read failed">>, d)
      ELSE IF foundLine = 0
      THEN Done([result EXCEPT !.Message = <<"Old string not found in file">>], d)
      ELSE IF written.err # <<>>
      THEN Fail(<<"failed to write file: ">> \o written.err, written.disk)
      ELSE Done([result EXCEPT
                   !.Replaced = TRUE,
                   !.LineNumber = foundLine,
                   !.OriginalLine = lines[foundLine],
                   !.NewLine = newLine,
                   !.Message = <<"Successfully replaced text on line ",
                                 ToString(foundLine)>>],
                written.disk)

\* The names of the model's files, lower-cased, in the order of Go's string <.
Lexical == << <<".ds_store">>, <<"a">>, <<"b">>, <<"boot", ".ini">>, <<"c", ".txt">>,
              <<"q", "?", ".txt">>, <<"x", ".exe">> >>

Rank(name) == FirstIndex(Lexical, LAMBDA l : l = ToLower(name))

\* The entries of a directory: the paths one element below it.
Children(d, p) ==
  { q \in DOMAIN d : q # p /\ q # <<Sep>> /\ Resolve(Dir(q)) = p }

\* listDirFunction: directories first, each kind by lower-cased name.
listDirFunction(params, d, io) ==
  LET relativePath == StringOf(params, "relative_workspace_path")
      targetPath == ResolveTarget(relativePath, StringOf(params, WorkDirKey))
      info == Stat(d, targetPath, io)
      entries == Children(d, Resolve(targetPath))
      Item(q) == IF d[q].kind = "dir"
                 THEN [Name |-> Base(q), Type |-> "dir", Size |-> 0,
                       ItemCount |-> Cardinality(Children(d, q))]
                 ELSE [Name |-> Base(q), Type |-> "file", Size |-> Len(d[q].bytes),
                       ItemCount |-> 0]
      Less(q, r) == IF d[q].kind # d[r].kind THEN d[q].kind = "dir"
                    ELSE Rank(Base(q)) < Rank(Base(r))
      Position(q) == 1 + Cardinality({r \in entries : Less(r, q)})
      items == [i \in 1..Cardinality(entries) |->
                  Item(CHOOSE q \in entries : Position(q) = i)]
  IN  IF ~IsString(params, "relative_workspace_path")
      THEN Fail(<<"relative_workspace_path is required">>, d)
      ELSE IF info.err = "notexist"
      THEN Fail(<<"directory not found: ">> \o targetPath, d)
      ELSE IF info.err # "nil"
      THEN Fail(<<"failed to access directory: ", "stat failed">>, d)
      ELSE IF ~info.isDir
      THEN Fail(<<"path is not a directory: ">> \o targetPath, d)
      ELSE IF io \in {"open", "read"}
      THEN Fail(<<"failed to read directory: ", "open failed">>, d)
      ELSE Done([Path |-> targetPath, Items |-> items, Count |-> Len(items)], d)

Spaces == {" ", "\n", "\t", "\r"}

\* strings.ReplaceAll(command, "\n", " ") and strings.TrimSpace
CleanCommand(command) ==
  LET flat == [i \in DOMAIN command |-> IF command[i] = "\n" THEN " " ELSE command[i]]
      kept == { i \in DOMAIN flat : flat[i] \notin Spaces }
  IN  IF kept = {} THEN <<>>
      ELSE SubSeq(flat,
                  CHOOSE i \in kept : \A j \in kept : i <= j,
                  CHOOSE i \in kept : \A j \in kept : j <= i)

\* The process id the system gives the first process started; the ones after
\* it get the numbers that follow.
FirstPID == 4242

NextPID == FirstPID + Len(procs)

\* Lines 69 and 82-84: cmd.Start() leaves a running process, and the go
\* statement a goroutine blocked in cmd.Wait().
StartedProcess == [state |-> "running", waiter |-> "waiting", reaped |-> 0]

\* A faulty variant: the function itself waits for the process to end.
Start_AndWait(params, io) ==
  IF IsString(params, "command") /\ StringOf(params, "command") # <<>>
     /\ BoolOf(params, "is_background") /\ io # "start"
  THEN Append(procs, [state |-> "exited", waiter |-> "none", reaped |-> 1])
  ELSE procs

\* The processes after runTerminalCmdFunction(params) has returned.
Start(params, io) ==
  IF IsString(params, "command") /\ StringOf(params, "command") # <<>>
     /\ BoolOf(params, "is_background") /\ io # "start"
  THEN Append(procs, StartedProcess)
  ELSE procs

\* runTerminalCmdFunction.  The command's own effects are outside the model:
\* it leaves the files alone, prints "out" and exits with status 0, or with
\* status 1 when io is "exit"; io "start" is a shell that cannot be launched.
runTerminalCmdFunction(params, d, io) ==
  LET command == StringOf(params, "command")
      isBackground == BoolOf(params, "is_background")
      result == [Command |-> CleanCommand(command), Output |-> <<>>, Error |-> <<>>,
                 ExitCode |-> 0, IsBackground |-> isBackground, PID |-> 0]
  IN  IF ~IsString(params, "command") \/ command = <<>>
      THEN Fail(<<"command is required">>, d)
      ELSE IF io = "start"
      THEN Done([result EXCEPT !.Error = <<"fork/exec ", "failed">>, !.ExitCode = -1], d)
      ELSE IF isBackground
      THEN Done([result EXCEPT
                   !.PID = NextPID,
                   !.Output = <<"Command started in background with PID: ",
                                ToString(NextPID)>>], d)
      ELSE IF io = "exit"
      THEN Done([result EXCEPT !.Output = <<"out">>, !.Error = <<"exit status 1">>,
                               !.ExitCode = 1], d)
      ELSE Done([result EXCEPT !.Output = <<"out">>], d)

----------------------------------------------------------------------------
(* grep_search and file_search *)

\* The pieces of the names searched, in the order of their bytes.
PieceOrder ==
  <<Sep, ".", ".exe", ".txt", "1", "2", "X", "a", "b", "c", "s", "work", "x", "y">>

PieceRank(piece) == FirstIndex(PieceOrder, LAMBDA l : l = piece)

\* The length of the common prefix of two paths.
CommonPrefix(q, r) ==
  LET same == { i \in 0..Len(q) : i <= Len(r) /\ SubSeq(q, 1, i) = SubSeq(r, 1, i) }
  IN  CHOOSE i \in same : \A j \in same : j <= i

\* filepath.Walk visits a directory before its entries and the entries of a
\* directory in the order of their names.
WalksBefore(q, r) ==
  LET n == CommonPrefix(q, r)
  IN  IF n = Len(q) THEN Len(r) > n
      ELSE IF n = Len(r) THEN FALSE
      ELSE PieceRank(q[n + 1]) < PieceRank(r[n + 1])

\* filepath.Walk(root): the paths visited without an error, in order.
Walk(d, root) ==
  LET visited == { q \in DOMAIN d :
                     /\ q = root \/ HasPrefix(q, IF root = <<Sep>> THEN root ELSE root \o <<Sep>>)
                     /\ root \in DOMAIN d
                     /\ Reachable(d, q) }
      Position(q) == 1 + Cardinality({ r \in visited : WalksBefore(r, q) })
  IN  [i \in 1..Cardinality(visited) |-> CHOOSE q \in visited : Position(q) = i]

\* The path filepath.Walk hands to its function for what it found at q.
WalkedPath(q, searchPath) ==
  LET root == Resolve(searchPath)
  IN  IF q = root THEN searchPath
      ELSE IF searchPath = <<".">> THEN SubSeq(q, Len(root) + 2, Len(q))
      ELSE IF searchPath = <<Sep>> THEN q
      ELSE searchPath \o SubSeq(q, Len(root) + 1, Len(q))

\* F applied to the value of v, which is computed once.
Bind(v, F(_)) == CHOOSE r \in { F(x) : x \in {v} } : TRUE

\* The sequences of seqs[lo..hi], one after the other.
RECURSIVE Concat(_, _, _)
Concat(seqs, lo, hi) ==
  IF lo > hi THEN <<>>
  ELSE IF lo = hi THEN seqs[lo]
  ELSE LET mid == (lo + hi) \div 2
       IN  Concat(seqs, lo, mid) \o Concat(seqs, mid + 1, hi)

\* filepath.Match(pattern, name) for patterns of literal pieces and "*".
RECURSIVE Match(_, _)
Match(pattern, name) ==
  IF pattern = <<>> THEN name = <<>>
  ELSE IF pattern[1] = "*"
  THEN \E k \in 0..Len(name) :
         /\ \A i \in 1..k : name[i] # Sep
         /\ Match(Tail(pattern), SubSeq(name, k + 1, Len(name)))
  ELSE /\ name # <<>>
       /\ name[1] = pattern[1]
       /\ Match(Tail(pattern), Tail(name))

\* regexp.MatchString for a query of literal characters, under (?i) when the
\* search is not case sensitive.
MatchString(query, caseSensitive, line) ==
  IF caseSensitive THEN Contains(line, query)
  ELSE Contains(ToLower(line), ToLower(query))

\* strings.Index, counted from 1; 0 when sub does not occur.
Index(s, sub) ==
  IF Contains(s, sub)
  THEN CHOOSE i \in 1..(Len(s) - Len(sub) + 1) :
         /\ SubSeq(s, i, i + Len(sub) - 1) = sub
         /\ \A j \in 1..(i - 1) : SubSeq(s, j, j + Len(sub) - 1) # sub
  ELSE 0

\* extractMatch
extractMatch(content, query, caseSensitive) ==
  LET c == IF caseSensitive THEN content ELSE ToLower(content)
      q == IF caseSensitive THEN query ELSE ToLower(query)
      idx == Index(c, q)
  IN  IF idx > 0 THEN SubSeq(c, idx, idx + Len(q) - 1) ELSE q

\* searchInFile: the matches of one file, which are its first 50 matching
\* lines; matchCount starts at 0 for every file.
searchInFile(filePath, bytes, query, caseSensitive) ==
  Bind(ScanLines(bytes) \o <<>>, LAMBDA lines :
    Bind(SelectSeq([i \in 1..Len(lines) |-> i],
                   LAMBDA i : MatchString(query, caseSensitive, lines[i])),
         LAMBDA hits :
           [k \in 1..(IF Len(hits) > 50 THEN 50 ELSE Len(hits)) |->
              [File |-> filePath, Line |-> hits[k], Column |-> 0,
               Content |-> lines[hits[k]],
               Match |-> extractMatch(lines[hits[k]], query, caseSensitive)]] \o <<>>))

\* The files among what filepath.Walk visits that the patterns let through.
SearchedFiles(d, searchPath, includePattern, excludePattern) ==
  SelectSeq(Walk(d, Resolve(searchPath)),
            LAMBDA q : /\ d[q].kind = "file"
                       /\ includePattern # <<>> => Match(includePattern, Base(q))
                       /\ excludePattern # <<>> => ~Match(excludePattern, Base(q)))

\* The distinct files of a list of matches.
MatchedFiles(matches) == Cardinality({ matches[i].File : i \in DOMAIN matches })

\* The result of a search with its counts.
GrepSearchResult(query, caseSensitive, includePattern, excludePattern, matches) ==
  [Query |-> query, Matches |-> matches, TotalMatches |-> Len(matches),
   MatchedFiles |-> MatchedFiles(matches), CaseSensitive |-> caseSensitive,
   IncludePattern |-> includePattern, ExcludePattern |-> excludePattern]

\* fallbackGrepSearch: io "open" is files that cannot be opened, which are
\* skipped, and io "read" a read that fails, which ends the walk.
fallbackGrepSearch(query, caseSensitive, includePattern, excludePattern, dir, d, io) ==
  Bind(IF dir # <<>> THEN dir ELSE <<".">>, LAMBDA searchPath :
    Bind(SearchedFiles(d, searchPath, includePattern, excludePattern), LAMBDA files :
      IF io = "read" /\ Len(files) > 0
      THEN Fail(<<"read failed">>, d)
      ELSE Bind([i \in 1..Len(files) |->
                   IF io = "open" THEN <<>>
                   ELSE searchInFile(WalkedPath(files[i], searchPath), d[files[i]].bytes,
                                     query, caseSensitive)] \o <<>>,
                LAMBDA found :
                  Bind(Concat(found, 1, Len(found)), LAMBDA matches :
                    Done(GrepSearchResult(query, caseSensitive, includePattern,
                                          excludePattern, matches), d)))))

\* The largest number read back from the output of the search utility.
MaxNumber == 64

Numbers == [n \in 0..MaxNumber |-> ToString(n)]

\* parseIntSafe: Sscanf with %d; 0 when the text is no number.
parseIntSafe(text) ==
  IF Len(text) = 1 /\ \E n \in DOMAIN Numbers : Numbers[n] = text[1]
  THEN CHOOSE n \in DOMAIN Numbers : Numbers[n] = text[1]
  ELSE 0

\* strings.Split(s, sep) for a separator of one piece.
Split(s, sep) ==
  LET at == SelectSeq([i \in 1..Len(s) |-> i], LAMBDA i : s[i] = sep)
      ends == Append(at, Len(s) + 1)
  IN  [k \in 1..Len(ends) |->
         SubSeq(s, IF k = 1 THEN 1 ELSE ends[k - 1] + 1, ends[k] - 1)]

\* strings.SplitN(s, sep, 4): at most four parts, the last one unsplit.
SplitN4(s, sep) ==
  LET at == SelectSeq([i \in 1..Len(s) |-> i], LAMBDA i : s[i] = sep)
      cuts == IF Len(at) > 3 THEN SubSeq(at, 1, 3) ELSE at
      ends == Append(cuts, Len(s) + 1)
  IN  [k \in 1..Len(ends) |->
         SubSeq(s, IF k = 1 THEN 1 ELSE ends[k - 1] + 1, ends[k] - 1)]

\* strings.TrimSpace
TrimSpace(s) ==
  LET kept == { i \in DOMAIN s : s[i] \notin Spaces }
  IN  IF kept = {} THEN <<>>
      ELSE SubSeq(s,
                  CHOOSE i \in kept : \A j \in kept : i <= j,
                  CHOOSE i \in kept : \A j \in kept : j <= i)

\* The line the search utility prints for a match.
Printed(found, query, caseSensitive) ==
  found.File \o <<":", ToString(found.Line), ":",
                  ToString(Index(IF caseSensitive THEN found.Content
                                 ELSE ToLower(found.Content),
                                 IF caseSensitive THEN query ELSE ToLower(query))),
                  ":">> \o found.Content

\* What the search utility prints for the arguments of lines 63 to 94: for
\* every file below searchPath that is not hidden and that the globs let
\* through, its first 50 matching lines (--max-count counts per file), each as
\* file:line:column:content.
Ripgrep(query, caseSensitive, includePattern, excludePattern, searchPath, d) ==
  Bind(SelectSeq(SearchedFiles(d, searchPath, includePattern, excludePattern),
                 LAMBDA q : \A i \in (Len(Resolve(searchPath)) + 1)..Len(q) :
                              q[i - 1] = Sep => q[i] \notin ExtPieces \cup {"."}),
       LAMBDA files :
         Bind([i \in 1..Len(files) |->
                 Bind(searchInFile(WalkedPath(files[i], searchPath), d[files[i]].bytes,
                                   query, caseSensitive),
                      LAMBDA found :
                        [k \in 1..Len(found) |->
                           Printed(found[k], query, caseSensitive)] \o <<>>)] \o <<>>,
              LAMBDA printed :
                Bind(Concat(printed, 1, Len(printed)), LAMBDA lines :
                  IF Len(lines) = 0 THEN <<>>
                  ELSE JoinLines(lines, 1, Len(lines)) \o <<"\n">>)))

\* The match that a line of four parts of the output stands for.
ParsedMatch(parts, query, caseSensitive) ==
  [File |-> parts[1],
   Line |-> parseIntSafe(parts[2]),
   Column |-> parseIntSafe(parts[3]),
   Content |-> parts[4],
   Match |-> extractMatch(parts[4], query, caseSensitive)]

\* Lines 116 to 159: the matches read back from the output.
ParsedMatches(output, query, caseSensitive) ==
  Bind(Split(output, "\n") \o <<>>, LAMBDA lines :
    Bind(SelectSeq([i \in 1..Len(lines) |-> SplitN4(TrimSpace(lines[i]), ":") \o <<>>],
                   LAMBDA parts : Len(parts) >= 4),
         LAMBDA split :
           [i \in 1..Len(split) |-> ParsedMatch(split[i], query, caseSensitive)] \o <<>>))

\* grepSearchFunction: io "lookpath" is a machine without the search utility,
\* io "open" and "read" are such a machine with files that cannot be opened or
\* read, and io "start" is a search utility that cannot be run.
grepSearchFunction(params, d, io) ==
  LET query == StringOf(params, "query")
      caseSensitive == BoolOf(params, "case_sensitive")
      includePattern == StringOf(params, "include_pattern")
      excludePattern == StringOf(params, "exclude_pattern")
      dir == StringOf(params, WorkDirKey)
      searchPath == IF dir # <<>> THEN dir ELSE <<".">>
  IN  IF ~IsString(params, "query") \/ query = <<>>
      THEN Fail(<<"query is required">>, d)
      ELSE IF io \in {"lookpath", "open", "read"}
      THEN fallbackGrepSearch(query, caseSensitive, includePattern, excludePattern,
                              dir, d, io)
      ELSE Bind(IF io = "start" THEN <<>>
                ELSE Ripgrep(query, caseSensitive, includePattern, excludePattern,
                             searchPath, d),
                LAMBDA output :
                  Bind(ParsedMatches(output, query, caseSensitive), LAMBDA matches :
                    Done(GrepSearchResult(query, caseSensitive, includePattern,
                                          excludePattern, matches), d)))

\* len(s): the bytes of the pieces of s.
RECURSIVE ByteLen(_)
ByteLen(s) == IF s = <<>> THEN 0 ELSE Len(s[1]) + ByteLen(Tail(s))

\* A float64 score as the fraction it is computed from, and its comparisons.
Score(n, d) == [n |-> n, d |-> d]

Greater(a, b) == a.n * b.d > b.n * a.d

\* The loop of lines 61 to 72 from position i of the file name: twice the
\* score, so that the bonus of a half is a whole number.
RECURSIVE CharScore(_, _, _, _)
CharScore(queryChars, pathChars, i, queryIdx) ==
  IF i > Len(pathChars) THEN 0
  ELSE IF queryIdx < Len(queryChars) /\ pathChars[i] = queryChars[queryIdx + 1]
  THEN 2 + (IF /\ queryIdx + 1 < Len(queryChars)
               /\ i + 1 <= Len(pathChars)
               /\ pathChars[i + 1] = queryChars[queryIdx + 2]
            THEN 1 ELSE 0)
         + CharScore(queryChars, pathChars, i + 1, queryIdx + 1)
  ELSE CharScore(queryChars, pathChars, i + 1, queryIdx)

\* calculateFuzzyScore; the characters of a name are its pieces.
calculateFuzzyScore(query, path) ==
  LET q == ToLower(query)
      p == ToLower(path)
      fileName == ToLower(Base(p))
  IN  IF fileName = q THEN Score(100, 1)
      ELSE IF Contains(fileName, q)
      THEN Score(80 * ByteLen(fileName) + 20 * ByteLen(q), ByteLen(fileName))
      ELSE IF Contains(p, q)
      THEN Score(60 * ByteLen(p) + 20 * ByteLen(q), ByteLen(p))
      ELSE IF Len(q) > 0
      THEN Score(25 * CharScore(q, fileName, 1, 0), Len(q))
      ELSE Score(0, 1)

\* generateMatchDescription
generateMatchDescription(query, path) ==
  IF Contains(ToLower(Base(path)), ToLower(query))
  THEN <<"Filename contains '">> \o ToLower(query) \o <<"'">>
  ELSE IF Contains(ToLower(Dir(path)), ToLower(query))
  THEN <<"Directory path contains '">> \o ToLower(query) \o <<"'">>
  ELSE <<"Fuzzy match">>

SkipExtensions ==
  {".exe", ".dll", ".so", ".dylib", ".o", ".a", ".jar", ".war", ".zip", ".tar", ".gz",
   ".7z", ".rar", ".jpg", ".jpeg", ".png", ".gif", ".bmp", ".svg", ".ico", ".mp3",
   ".mp4", ".avi", ".mov", ".wav", ".pdf"}

\* A faulty variant: every match is returned.
Capped_All(matches) == matches

\* Lines 156 to 159: the first ten matches.
Capped(matches) == IF Len(matches) > 10 THEN SubSeq(matches, 1, 10) ELSE matches

\* sort.Slice by falling score.  The sort is not stable: matches of one score
\* stay in the order of the walk, or come out reversed when io is "unstable".
SortByScore(matches, io) ==
  LET Before(i, j) ==
        \/ Greater(matches[i].Score, matches[j].Score)
        \/ /\ ~Greater(matches[j].Score, matches[i].Score)
           /\ IF io = "unstable" THEN i > j ELSE i < j
      Position(i) == 1 + Cardinality({ j \in DOMAIN matches : Before(j, i) })
  IN  [k \in 1..Len(matches) |->
         matches[CHOOSE i \in DOMAIN matches : Position(i) = k]] \o <<>>

\* The file with its score and the description of its match.
FileMatch(query, file) ==
  [Path |-> file,
   Score |-> calculateFuzzyScore(query, file),
   Match |-> generateMatchDescription(query, file)]

\* Lines 104 to 129: the files that are not hidden and not of a skipped type.
AllFiles(d, searchPath) ==
  Bind(SelectSeq(Walk(d, Resolve(searchPath)),
                 LAMBDA q : /\ d[q].kind = "file"
                            /\ Base(q)[1] \notin ExtPieces \cup {"."}
                            /\ \A e \in SkipExtensions : ToLower(Ext(q)) # <<e>>),
       LAMBDA walked : [i \in 1..Len(walked) |-> WalkedPath(walked[i], searchPath)] \o <<>>)

\* fileSearchFunction
fileSearchFunction(params, d, io) ==
  LET query == StringOf(params, "query")
      dir == StringOf(params, WorkDirKey)
      searchPath == IF dir # <<>> THEN dir ELSE <<".">>
  IN  IF ~IsString(params, "query") \/ query = <<>>
      THEN Fail(<<"query is required">>, d)
      ELSE Bind(AllFiles(d, searchPath), LAMBDA allFiles :
             Bind(SelectSeq([i \in 1..Len(allFiles) |-> FileMatch(query, allFiles[i])],
                            LAMBDA match : Greater(match.Score, Score(0, 1))),
                  LAMBDA matches :
                    Bind(SortByScore(matches, io), LAMBDA sorted :
                      Bind(Capped(sorted), LAMBDA kept :
                        Done([Query |-> query, Matches |-> kept, Count |-> Len(kept)],
                             d)))))

----------------------------------------------------------------------------
(* The registered tools called through ExecuteTool *)

\* The input schemas: the type of each property and the required properties.
ReadFileSchema ==
  [Name |-> "read_file",
   Properties |-> [target_file |-> "string", should_read_entire_file |-> "boolean",
                   start_line_one_indexed |-> "integer",
                   end_line_one_indexed_inclusive |-> "integer",
                   explanation |-> "string"],
   Required |-> {"target_file", "should_read_entire_file", "start_line_one_indexed",
                 "end_line_one_indexed_inclusive"}]

RunTerminalCmdSchema ==
  [Name |-> "run_terminal_cmd",
   Properties |-> [command |-> "string", is_background |-> "boolean",
                   explanation |-> "string"],
   Required |-> {"command", "is_background"}]

ListDirSchema ==
  [Name |-> "list_dir",
   Properties |-> [relative_workspace_path |-> "string", explanation |-> "string"],
   Required |-> {"relative_workspace_path"}]

SearchReplaceSchema ==
  [Name |-> "search_replace",
   Properties |-> [file_path |-> "string", old_string |-> "string",
                   new_string |-> "string"],
   Required |-> {"file_path", "old_string", "new_string"}]

DeleteFileSchema ==
  [Name |-> "delete_file",
   Properties |-> [target_file |-> "string", explanation |-> "string"],
   Required |-> {"target_file"}]

WriteFileSchema ==
  [Name |-> "write_file",
   Properties |-> [target_file |-> "string", content |-> "string",
                   overwrite |-> "boolean", explanation |-> "string"],
   Required |-> {"target_file", "content"}]

GrepSearchSchema ==
  [Name |-> "grep_search",
   Properties |-> [query |-> "string", case_sensitive |-> "boolean",
                   include_pattern |-> "string", exclude_pattern |-> "string",
                   explanation |-> "string"],
   Required |-> {"query"}]

FileSearchSchema ==
  [Name |-> "file_search",
   Properties |-> [query |-> "string", explanation |-> "string"],
   Required |-> {"query", "explanation"}]

\* RegisterAllTools
RegisterAllTools ==
  ("grep_search" :> [Schema |-> GrepSearchSchema, Function |-> "grepSearchFunction"])
  @@ ("file_search" :> [Schema |-> FileSearchSchema, Function |-> "fileSearchFunction"])
  @@ ("read_file" :> [Schema |-> ReadFileSchema, Function |-> "readFileFunction"])
  @@ ("run_terminal_cmd" :>
        [Schema |-> RunTerminalCmdSchema, Function |-> "runTerminalCmdFunction"])
  @@ ("list_dir" :> [Schema |-> ListDirSchema, Function |-> "listDirFunction"])
  @@ ("search_replace" :>
        [Schema |-> SearchReplaceSchema, Function |-> "searchReplaceFunction"])
  @@ ("delete_file" :> [Schema |-> DeleteFileSchema, Function |-> "deleteFileFunction"])
  @@ ("write_file" :> [Schema |-> WriteFileSchema, Function |-> "writeFileFunction"])

\* tool.Function(params) on the filesystem d in the environment io.
CallFunction(function, params, d, io) ==
  CASE function = "readFileFunction" -> readFileFunction(params, d, io)
    [] function = "runTerminalCmdFunction" -> runTerminalCmdFunction(params, d, io)
    [] function = "listDirFunction" -> listDirFunction(params, d, io)
    [] function = "searchReplaceFunction" -> searchReplaceFunction(params, d, io)
    [] function = "deleteFileFunction" -> deleteFileFunction(params, d, io)
    [] function = "writeFileFunction" -> writeFileFunction(params, d, io)
    [] function = "grepSearchFunction" -> grepSearchFunction(params, d, io)
    [] function = "fileSearchFunction" -> fileSearchFunction(params, d, io)

\* The thread that calls the tools, one call at a time.
Caller == "w1"

\* The most processes a run starts in the background.
MaxProcesses == 2

\* ExecuteTool(name, params) is called.
Tool_Call(name, params) ==
  /\ (name = "run_terminal_cmd" /\ BoolOf(params, "is_background"))
       => Len(procs) < MaxProcesses
  /\ ExecuteTool_RLock(Caller, name, params)
  /\ fnCall' = NoCall
  /\ UNCHANGED <<disk, procs, orchVars>>

\* ExecuteTool(name, params) is called; the history keeps what the call
\* before it was given and what it returned.
Tool_CallAgain(name, params) ==
  /\ ExecuteTool_RLock(Caller, name, params)
  /\ fnCall' = [NoCall EXCEPT !.prev = IF ret[Caller].called
                                       THEN <<[fnParams |-> ret[Caller].fnParams,
                                               io |-> fnCall.io,
                                               result |-> ret[Caller].result]>>
                                       ELSE <<>>]
  /\ UNCHANGED <<disk, procs, orchVars>>

\* The lookup, the unlock and the merge of the working directory.
Tool_Lookup ==
  /\ ExecuteTool_Lookup(Caller)
  /\ UNCHANGED <<toolVars, orchVars>>

\* Line 96: tool.Function(params) runs in the environment io, and ExecuteTool
\* returns what it makes of the outcome.
Tool_Function(io) ==
  /\ pc[Caller] = "Function"
  /\ LET r == CallFunction(local[Caller].tool.Function, local[Caller].params, disk, io)
     IN  /\ ExecuteTool_Return(Caller, r.out)
         /\ disk' = r.disk
  /\ fnCall' = [before |-> disk, io |-> io, prev |-> fnCall.prev]
  /\ procs' = IF local[Caller].tool.Function = "runTerminalCmdFunction"
              THEN Start(local[Caller].params, io)
              ELSE procs
  /\ UNCHANGED orchVars

\* The process with the given position ends, on its own account.
Process_Exit(i) ==
  /\ i \in DOMAIN procs
  /\ procs[i].state = "running"
  /\ procs' = [procs EXCEPT ![i].state = "exited"]
  /\ UNCHANGED <<mgrVars, orchVars, disk, fnCall>>

\* Line 83: cmd.Wait() returns in the goroutine once the process has ended,
\* and the goroutine ends with it.
Goroutine_Wait(i) ==
  /\ i \in DOMAIN procs
  /\ procs[i].waiter = "waiting"
  /\ procs[i].state = "exited"
  /\ procs' = [procs EXCEPT ![i].waiter = "done", ![i].reaped = @ + 1]
  /\ UNCHANGED <<mgrVars, orchVars, disk, fnCall>>

\* cmd/root.go with a given filesystem: the tools are registered and the
\* working directory is the directory the process runs in.
ToolsInit(disks) ==
  /\ tools = RegisterAllTools
  /\ firstReg = tools
  /\ workDir = Str(Cwd)
  /\ mu = [writer |-> NoThread, readers |-> {}]
  /\ pc = [t \in Threads |-> "idle"]
  /\ local = [t \in Threads |-> NoLocal]
  /\ ret = [t \in Threads |-> NoRet]
  /\ NewClient
  /\ hasManager = TRUE
  /\ disk \in disks
  /\ fnCall = NoCall
  /\ procs = <<>>

----------------------------------------------------------------------------
(* Files written, deleted, read and listed *)

\* The files and directories the calls name.
Target == <<"a", Sep, "b", Sep, "c", ".txt">>

TargetIn(dir) == <<Sep, dir, Sep, "c", ".txt">>

Targets ==
  { Target, TargetIn("etc"), TargetIn("dev"), <<"x", ".exe">>, <<"x", ".EXE">>,
    <<"q", "?", ".txt">>, <<"boot", ".ini">> }

Contents == { <<"h", "i", "\n", "y", "o">>, <<"y", "o", "\n">> }

\* The directories every filesystem starts with, and the files it may hold.
BaseDisk ==
  (<<Sep>> :> DirEntry) @@ (Cwd :> DirEntry) @@ (<<Sep, "etc">> :> DirEntry)
  @@ (<<Sep, "dev">> :> DirEntry)

DiskWith(files) ==
  [p \in DOMAIN BaseDisk \cup files |->
     IF p \in files THEN FileEntry(<<"o", "l", "d">>) ELSE BaseDisk[p]]

FileDisks == { DiskWith(files) : files \in SUBSET {TargetIn("etc"), Join(Cwd, <<"x", ".EXE">>)} }

WriteCalls ==
  { MakeParams(("target_file" :> Str(t)) @@ ("content" :> Str(c))) :
      t \in Targets, c \in Contents }
  \cup
  { MakeParams(("target_file" :> Str(t)) @@ ("content" :> Str(c))
               @@ ("overwrite" :> Bool(TRUE))) :
      t \in {Target, TargetIn("etc")}, c \in Contents }
  \cup
  { MakeParams("target_file" :> Str(Target)),
    MakeParams(("target_file" :> Num(7)) @@ ("content" :> Str(<<"y", "o", "\n">>))) }

DeleteCalls ==
  { MakeParams("target_file" :> Str(t)) : t \in Targets } \cup { MakeParams(EmptyMap) }

ReadCalls ==
  { MakeParams(("target_file" :> Str(Target)) @@ ("should_read_entire_file" :> Bool(TRUE))
               @@ ("start_line_one_indexed" :> Num(1))
               @@ ("end_line_one_indexed_inclusive" :> Num(2))),
    MakeParams(("target_file" :> Str(Target)) @@ ("should_read_entire_file" :> Bool(FALSE))
               @@ ("start_line_one_indexed" :> Num(1))
               @@ ("end_line_one_indexed_inclusive" :> Num(2))),
    MakeParams("target_file" :> Str(Target)),
    MakeParams(("target_file" :> Str(Target)) @@ ("should_read_entire_file" :> Bool(TRUE))),
    NilParams }

ListCalls ==
  { MakeParams("relative_workspace_path" :> Str(<<"a">>)),
    MakeParams("relative_workspace_path" :> Str(<<Sep, "work">>)),
    MakeParams("relative_workspace_path" :> Str(Target)),
    MakeParams(EmptyMap) }

ReplaceCalls ==
  { MakeParams(("file_path" :> Str(Target)) @@ ("old_string" :> Str(<<"y">>))
               @@ ("new_string" :> Str(<<"n">>))),
    MakeParams(("file_path" :> Str(Target)) @@ ("old_string" :> Str(<<"z">>))
               @@ ("new_string" :> Str(<<"n">>))),
    MakeParams(("file_path" :> Str(Target)) @@ ("old_string" :> Str(<<"y">>))) }

CommandCalls ==
  { MakeParams(("command" :> Str(<<"ls", "\n">>)) @@ ("is_background" :> Bool(FALSE))),
    MakeParams(("command" :> Str(<<"ls", "\n">>)) @@ ("is_background" :> Bool(TRUE))),
    MakeParams("command" :> Str(<<"ls", "\n">>)),
    MakeParams("is_background" :> Bool(TRUE)) }

FileCalls ==
  [name : {"write_file"}, params : WriteCalls]
  \cup [name : {"delete_file"}, params : DeleteCalls]
  \cup [name : {"read_file"}, params : ReadCalls]
  \cup [name : {"list_dir"}, params : ListCalls]
  \cup [name : {"search_replace"}, params : ReplaceCalls]
  \cup [name : {"run_terminal_cmd"}, params : CommandCalls]

FilesInit == ToolsInit(FileDisks)

FilesNext ==
  \/ \E c \in FileCalls : Tool_Call(c.name, c.params)
  \/ Tool_Lookup
  \/ \E io \in IOFaults : Tool_Function(io)

SpecFiles == FilesInit /\ [][FilesNext]_vars

----------------------------------------------------------------------------
(* One file edited by search_replace *)

MaxFileLen == 3

Bytes == {"a", "\n", "\r"}

\* The strings of the bytes of S up to length n.
Strings(S, n) == UNION { [1..k -> S] : k \in 0..n }

EditedFile == <<"f", ".txt">>

ReplaceDisks ==
  { [p \in DOMAIN BaseDisk \cup {Join(Cwd, EditedFile)} |->
       IF p \in DOMAIN BaseDisk THEN BaseDisk[p] ELSE FileEntry(bytes)] :
      bytes \in Strings(Bytes, MaxFileLen) }

OldStrings == { <<"a">>, <<"a", "a">> }

NewStrings == { <<>>, <<"b">>, <<"\n">> }

EditCalls ==
  { MakeParams(("file_path" :> Str(EditedFile)) @@ ("old_string" :> Str(old))
               @@ ("new_string" :> Str(new))) :
      old \in OldStrings, new \in NewStrings }

EditFaults == {"none", "read", "create"}

ReplaceInit == ToolsInit(ReplaceDisks)

ReplaceNext ==
  \/ \E params \in EditCalls : Tool_CallAgain("search_replace", params)
  \/ Tool_Lookup
  \/ \E io \in EditFaults : Tool_Function(io)

SpecReplace == ReplaceInit /\ [][ReplaceNext]_vars

----------------------------------------------------------------------------
(* One long file read by read_file *)

ReadFileName == <<"long", ".txt">>

\* The numbers of lines of the file.
FileLengths == {10, 254, 255, 300}

\* A text of n lines, each one byte and a newline.
TextOf(n) == [i \in 1..(2 * n) |-> IF i % 2 = 1 THEN "x" ELSE "\n"]

LongDisks ==
  { [p \in DOMAIN BaseDisk \cup {Join(Cwd, ReadFileName)} |->
       IF p \in DOMAIN BaseDisk THEN BaseDisk[p] ELSE FileEntry(TextOf(n))] :
    n \in FileLengths }

StartLines == {0, 1, 5, 100}

EndLines == {10, 204, 254, 255, 256}

RangeCalls ==
  { MakeParams(("target_file" :> Str(ReadFileName))
               @@ ("should_read_entire_file" :> Bool(entire))
               @@ ("start_line_one_indexed" :> Num(start))
               @@ ("end_line_one_indexed_inclusive" :> Num(end))) :
    entire \in BOOLEAN, start \in StartLines, end \in EndLines }

ReadFaults == {"none", "open", "read"}

ReadInit == ToolsInit(LongDisks)

ReadNext ==
  \/ \E params \in RangeCalls : Tool_Call("read_file", params)
  \/ Tool_Lookup
  \/ \E io \in ReadFaults : Tool_Function(io)

SpecRead == ReadInit /\ [][ReadNext]_vars

----------------------------------------------------------------------------
(* Files searched by grep_search and file_search *)

\* The number of lines of a long file, each of which matches the query "x".
MaxMatching == 60

\* The files of the working directory, by name, with the lines each holds.
OneLongFile == (<<"a">> :> MaxMatching)

TwoLongFiles == (<<"a">> :> MaxMatching) @@ (<<"b">> :> MaxMatching)

ManyFiles ==
  [name \in { <<"a">>, <<"a", "a">>, <<"a", "b">>, <<"a", "c">>, <<"b", "a">>,
              <<"c", "a">>, <<"a", "a", "b">>, <<"a", "b", "c">>, <<"a", "1">>,
              <<"a", "2">>, <<"a", "a", "a">>, <<"b", "a", "b">>, <<"b">>, <<"c">>,
              <<"s", Sep, "b">>, <<"x", ".exe">>, <<".", "a">> } |-> 1]

SearchDisk(files) ==
  [p \in DOMAIN BaseDisk \cup { Join(Cwd, name) : name \in DOMAIN files }
         \cup { Join(Cwd, SubSeq(name, 1, LastSep(name) - 1)) :
                name \in { n \in DOMAIN files : LastSep(n) > 0 } } |->
     IF p \in DOMAIN BaseDisk THEN BaseDisk[p]
     ELSE IF \E name \in DOMAIN files : p = Join(Cwd, name)
     THEN FileEntry(TextOf(files[CHOOSE name \in DOMAIN files : p = Join(Cwd, name)]))
     ELSE DirEntry]

SearchDisks == { SearchDisk(OneLongFile), SearchDisk(TwoLongFiles), SearchDisk(ManyFiles) }

Optional(key, values) == {EmptyMap} \cup { key :> v : v \in values }

GrepCalls ==
  { MakeParams(("query" :> Str(query)) @@ sensitive @@ include @@ exclude) :
      query \in { <<"x">>, <<"X">>, <<"y">> },
      sensitive \in Optional("case_sensitive", {Bool(TRUE)}),
      include \in Optional("include_pattern", {Str(<<"a", "*">>)}),
      exclude \in Optional("exclude_pattern", {Str(<<"a">>)}) }
  \cup { MakeParams(EmptyMap) }

FileSearchCalls ==
  { MakeParams("query" :> Str(query)) :
      query \in { <<"a">>, <<"a", "b">>, <<"s">>, <<"X">>, <<"y">> } }
  \cup { MakeParams(EmptyMap) }

SearchFaults == {"none", "lookpath", "open", "read", "start", "unstable"}

SearchInit == ToolsInit(SearchDisks)

SearchNext ==
  \/ \E params \in GrepCalls : Tool_Call("grep_search", params)
  \/ \E params \in FileSearchCalls : Tool_Call("file_search", params)
  \/ Tool_Lookup
  \/ \E io \in SearchFaults : Tool_Function(io)

SpecSearch == SearchInit /\ [][SearchNext]_vars

----------------------------------------------------------------------------
(* Commands run in the foreground and in the background *)

Commands == { <<"ls", "\n">>, <<"sleep", " ", "1">>, <<"\n">> }

ShellCalls ==
  { MakeParams(("command" :> Str(c)) @@ ("is_background" :> Bool(b))) :
      c \in Commands, b \in BOOLEAN }
  \cup { MakeParams("command" :> Str(c)) : c \in Commands }
  \cup { MakeParams("is_background" :> Bool(TRUE)) }

ShellFaults == {"none", "start", "exit"}

ShellInit == ToolsInit({BaseDisk})

ShellNext ==
  \/ \E params \in ShellCalls : Tool_Call("run_terminal_cmd", params)
  \/ Tool_Lookup
  \/ \E io \in ShellFaults : Tool_Function(io)
  \/ \E i \in 1..MaxProcesses : Process_Exit(i)
  \/ \E i \in 1..MaxProcesses : Goroutine_Wait(i)

SpecShell == ShellInit /\ [][ShellNext]_vars

----------------------------------------------------------------------------
(* Properties of the manager *)

\* C1: a RegisterTool on a name that is already registered returns the
\* duplicate-name error and leaves the registry as it was, and a GetTool on a
\* name returns the tool of the first RegisterTool call made on that name.
C1_DuplicateRegistrationRejected ==
  [][\A t \in Threads :
       /\ (pc[t] = "RegisterTool" /\ pc'[t] = "idle"
             /\ local[t].name \in DOMAIN tools)
          => (tools' = tools /\ ret'[t].err = DuplicateError(local[t].name))
       /\ (pc[t] = "GetTool" /\ pc'[t] = "idle"
             /\ local[t].name \in DOMAIN firstReg)
          => (ret'[t].exists /\ ret'[t].tool = firstReg[local[t].name])]_vars

\* A second registration with another tool was rejected and a GetTool on
\* that name has returned.
C1_Witness ==
  \E t, u \in Threads :
    /\ ret[t].op = "RegisterTool"
    /\ ~ret[t].err.isNil
    /\ ret[t].argTool # tools[ret[t].name]
    /\ ret[u].op = "GetTool"
    /\ ret[u].name = ret[t].name
    /\ ret[u].exists

\* C2: ExecuteTool on a name that is not in the registry returns a result
\* with Success=false, Name=name and a non-empty Error, returns a nil Go
\* error, and calls no tool function, whatever the params.
C2_UnknownToolIsFailedResult ==
  [][\A t \in Threads :
       (pc[t] = "ExecuteTool" /\ pc'[t] # "ExecuteTool"
          /\ local[t].name \notin DOMAIN tools)
       => /\ pc'[t] = "idle"
          /\ ~ret'[t].called
          /\ ret'[t].result.Success = FALSE
          /\ ret'[t].result.Name = local[t].name
          /\ ret'[t].result.Error # <<>>
          /\ ret'[t].err.isNil]_vars

\* An ExecuteTool on an unregistered name has returned without a call of a
\* tool function, while another name is registered.
C2_Witness ==
  \E t \in Threads :
    /\ ret[t].op = "ExecuteTool"
    /\ ~ret[t].called
    /\ ret[t].name \notin DOMAIN tools
    /\ tools # EmptyMap

\* C9: when the tool function returns an error ExecuteTool's result has
\* Success=false and Error equal to the error's text; Success=true exactly
\* when the function returned no error; ExecuteTool's Go error is nil.
C9_FunctionErrorIsFailedResult ==
  \A t \in Threads :
    (ret[t].op = "ExecuteTool" /\ ret[t].called)
    => /\ ret[t].result.Success <=> ret[t].fnOut.Err.isNil
       /\ ~ret[t].fnOut.Err.isNil
          => (~ret[t].result.Success
                /\ ret[t].result.Error = ret[t].fnOut.Err.text)
       /\ ret[t].result.Name = ret[t].name
       /\ ret[t].err.isNil

\* A tool function has returned the error "boom".
C9_Witness ==
  \E t \in Threads :
    /\ ret[t].op = "ExecuteTool"
    /\ ret[t].called
    /\ ret[t].fnOut.Err = Error(<<"boom">>)

\* C10: the params a tool function is called with are a non-nil map that
\* holds the manager's working directory under __work_dir__, also when the
\* caller's params had an entry under that key; the caller's other entries
\* are passed on.
C10_WorkDirOverridesCaller ==
  [][\A t \in Threads :
       (pc[t] = "ExecuteTool" /\ pc'[t] = "Function")
       => /\ ~local'[t].params.isNil
          /\ WorkDirKey \in DOMAIN local'[t].params.m
          /\ local'[t].params.m[WorkDirKey] = workDir
          /\ \A k \in DOMAIN local[t].arg.m \ {WorkDirKey} :
               /\ k \in DOMAIN local'[t].params.m
               /\ local'[t].params.m[k] = local[t].arg.m[k]]_vars

\* A tool function is running that was called with a caller-supplied
\* __work_dir__ entry.
C10_Witness ==
  \E t \in Threads :
    /\ pc[t] = "Function"
    /\ WorkDirKey \in DOMAIN local[t].arg.m
    /\ local[t].arg.m[WorkDirKey] = "/evil"
    /\ local[t].params.m[WorkDirKey] \in Dirs

----------------------------------------------------------------------------
(* Properties of the client *)

\* C3: a query makes at most 5 stream requests, and a query whose five
\* rounds all had tool calls ends after the fifth round and returns nil.
C3_AtMostFiveRequests ==
  /\ Len(sent) <= 5
  /\ iteration <= 5
  /\ (opc = "done" /\ iteration = 5) => (queryErr.isNil /\ Len(sent) = 5)

\* The query has returned after five rounds with tool calls.
C3_Witness ==
  /\ opc = "done"
  /\ iteration = 5
  /\ Len(sent) = 5
  /\ Len(messages) >= 12

\* The round's fragments that carried index i, in arrival order.
FragmentsAt(i) == SelectSeq(received, LAMBDA f : f.Index = <<i>>)

RECURSIVE ConcatArguments(_)
ConcatArguments(fs) ==
  IF fs = <<>> THEN <<>>
  ELSE Head(fs).Function.Arguments \o ConcatArguments(Tail(fs))

\* The last non-empty identifier (name) among the fragments fs, "" if none.
RECURSIVE LastID(_)
LastID(fs) ==
  IF fs = <<>> THEN ""
  ELSE IF fs[Len(fs)].ID # "" THEN fs[Len(fs)].ID
  ELSE LastID(SubSeq(fs, 1, Len(fs) - 1))

RECURSIVE LastName(_)
LastName(fs) ==
  IF fs = <<>> THEN ""
  ELSE IF fs[Len(fs)].Function.Name # "" THEN fs[Len(fs)].Function.Name
  ELSE LastName(SubSeq(fs, 1, Len(fs) - 1))

IndexesReceived ==
  { received[k].Index[1] : k \in { j \in DOMAIN received : received[j].Index # <<>> } }

\* C4: fragments are merged by index: the call at index i has as argument
\* text the concatenation, in arrival order, of the argument pieces that
\* carried index i, and the identifier and name delivered for index i; there
\* are as many calls as the highest index received plus one, so fragments at
\* the indices 0 and 1 give two calls.
C4_FragmentsMergedByIndex ==
  /\ \A i \in 0..(Len(toolCalls) - 1) :
       /\ toolCalls[i + 1].Function.Arguments = ConcatArguments(FragmentsAt(i))
       /\ toolCalls[i + 1].ID = LastID(FragmentsAt(i))
       /\ toolCalls[i + 1].Function.Name = LastName(FragmentsAt(i))
  /\ \A i \in IndexesReceived : i < Len(toolCalls)
  /\ Len(toolCalls) > 0 => (Len(toolCalls) - 1) \in IndexesReceived
  /\ IndexesReceived = {0, 1} => Len(toolCalls) = 2

\* A stream has ended in which the argument pieces of the calls at the
\* indices 0 and 1 arrived interleaved.
C4_Witness ==
  /\ recvErr = "EOF"
  /\ Len(toolCalls) = 2
  /\ Len(received) = 4
  /\ received[1].Index = <<1>> /\ received[2].Index = <<0>>
  /\ received[3].Index = <<1>> /\ received[4].Index = <<0>>
  /\ toolCalls[1].ID = "call_a" /\ toolCalls[2].ID = "call_b"
  /\ toolCalls[1].Function.Arguments = <<"{", "}">>
  /\ toolCalls[2].Function.Arguments = <<"{", "}">>

\* C5: when the dispatch of a round is over, executeToolCall has been called
\* once for each tool call of the round's assistant message, in order, and
\* the history ends with that assistant message followed by one tool-role
\* reply per call, carrying the call's identifier.
C5_EveryListedCallRepliedOnce ==
  (opc = "loop" /\ iteration > 0)
  => LET n == Len(toolCalls)
         base == Len(messages) - n
     IN  /\ attempts = [k \in 1..n |-> k]
         /\ base >= 1
         /\ messages[base].Role = "assistant"
         /\ messages[base].ToolCalls = toolCalls
         /\ \A k \in 1..n :
              /\ messages[base + k].Role = "tool"
              /\ messages[base + k].ToolCallID = toolCalls[k].ID

\* C6: when a round's stream ends with no tool call assembled the query
\* returns nil at once: nothing is executed, nothing is appended to the
\* history, no request is made, and nothing happens after the return.
C6_NoToolCallsEndsTheLoop ==
  [][/\ (opc = "recv" /\ recvErr' = "EOF" /\ Len(toolCalls) = 0)
        => /\ opc' = "done"
           /\ queryErr'.isNil
           /\ sent' = sent
           /\ messages' = messages
           /\ attempts' = <<>>
           /\ pc' = pc
     /\ opc # "done"]_vars

\* The query has returned after a second round that had text and no tool
\* call.
C6_Witness ==
  /\ opc = "done"
  /\ recvErr = "EOF"
  /\ toolCalls = <<>>
  /\ contentBuffer # <<>>
  /\ iteration = 1
  /\ queryErr.isNil

\* C7 as claimed: the query returns an error only from the call that
\* establishes a round's stream.
C7_OnlyCreateStreamFails ==
  [][(opc # "done" /\ opc' = "done" /\ ~queryErr'.isNil) => opc = "loop"]_vars

\* C7 as amended: the query returns an error only from the call that
\* establishes a round's stream or from a stream.Recv() that fails with an
\* error other than EOF; no tool call makes it return an error.
C7_OnlyStreamFailuresAbort ==
  [][(opc # "done" /\ opc' = "done" /\ ~queryErr'.isNil)
       => \/ opc = "loop"
          \/ opc = "recv" /\ recvErr' \notin {"", "EOF"}]_vars

\* The query has returned a stream error in its second round, after a first
\* round whose tool call failed.
C7_Witness ==
  /\ opc = "done"
  /\ ~queryErr.isNil
  /\ recvErr = "connection reset"
  /\ iteration = 1
  /\ Len(messages) = 4
  /\ messages[4].Content[1] = "Tool execution failed: "

IsSuffix(e, c) ==
  /\ Len(e) <= Len(c)
  /\ SubSeq(c, Len(c) - Len(e) + 1, Len(c)) = e

\* The tool call at callIdx cannot be parsed (it is about to fail).
UnparsableCall ==
  /\ opc = "dispatch"
  /\ callIdx <= Len(toolCalls)
  /\ Runnable(toolCalls[callIdx])
  /\ hasManager
  /\ ~Unmarshal(toolCalls[callIdx].Function.Arguments).err.isNil

\* ExecuteTool has returned a failed result for the tool call at callIdx.
FailedResult ==
  /\ opc = "ExecuteTool"
  /\ pc[Orch] = "idle"
  /\ ~ret[Orch].result.Success

\* The positions of the round's tool calls that line 404 lets run.
RunnablePositions ==
  SelectSeq([k \in 1..Len(toolCalls) |-> k], LAMBDA k : Runnable(toolCalls[k]))

\* C8: a tool call that fails (arguments that cannot be parsed, an
\* unregistered tool, a tool function error) does not end the query: its
\* error text ends the content of the tool-role reply appended for it, the
\* range loop goes on to the round's next call, every call of the round that
\* can run is run, and the end of the range loop leads to the loop head.
C8_FailedCallDoesNotAbort ==
  /\ [][/\ UnparsableCall
           => /\ opc' = "dispatch"
              /\ callIdx' = callIdx + 1
              /\ queryErr' = queryErr
              /\ Len(messages') = Len(messages) + 1
              /\ SubSeq(messages', 1, Len(messages)) = messages
              /\ messages'[Len(messages')].Role = "tool"
              /\ messages'[Len(messages')].ToolCallID = toolCalls[callIdx].ID
              /\ IsSuffix(Unmarshal(toolCalls[callIdx].Function.Arguments).err.text,
                          messages'[Len(messages')].Content)
        /\ FailedResult
           => /\ opc' = "dispatch"
              /\ callIdx' = callIdx + 1
              /\ queryErr' = queryErr
              /\ Len(messages') = Len(messages) + 1
              /\ SubSeq(messages', 1, Len(messages)) = messages
              /\ messages'[Len(messages')].Role = "tool"
              /\ messages'[Len(messages')].ToolCallID = toolCalls[callIdx].ID
              /\ IsSuffix(ret[Orch].result.Error, messages'[Len(messages')].Content)
        /\ (opc = "dispatch" /\ callIdx > Len(toolCalls))
           => /\ opc' = "loop"
              /\ iteration' = iteration + 1
              /\ queryErr' = queryErr]_vars
  /\ []((opc = "loop" /\ iteration > 0) => attempts = RunnablePositions)

\* A second request has been made after a round whose first call, of an
\* unregistered tool, failed and whose second call was then run.
C8_Witness ==
  /\ Len(sent) = 2
  /\ Len(messages) = 5
  /\ messages[4].Content = <<"Tool execution failed: ", "tool '", "edit_file", "' not found">>
  /\ messages[4].ToolCallID = "call_a"
  /\ messages[5].Role = "tool"
  /\ messages[5].ToolCallID = "call_b"

IsPrefix(s, t) == Len(s) <= Len(t) /\ SubSeq(t, 1, Len(s)) = s

\* C11: during a query the history only grows by appending: every step
\* leaves the history a prefix of the new one, the history of each request
\* has the history of the request before it as a prefix and starts with the
\* system and user messages, and a request carries the whole history.
C11_HistoryIsAppendOnly ==
  /\ [][IsPrefix(messages, messages')]_vars
  /\ [][sent' # sent =>
          /\ Len(sent') = Len(sent) + 1
          /\ SubSeq(sent', 1, Len(sent)) = sent
          /\ sent'[Len(sent')].Messages = messages]_vars
  /\ [](\A k \in DOMAIN sent :
          /\ Len(sent[k].Messages) >= 2
          /\ sent[k].Messages[1] = SystemMessage
          /\ sent[k].Messages[2] = UserMessage
          /\ k > 1 => IsPrefix(sent[k - 1].Messages, sent[k].Messages))

\* Two rounds with tool calls were followed by a third request.
C11_Witness ==
  /\ Len(sent) = 3
  /\ Len(sent[1].Messages) = 2
  /\ Len(sent[2].Messages) > 3
  /\ Len(sent[3].Messages) > Len(sent[2].Messages) + 1

----------------------------------------------------------------------------
(* Properties of the tools *)

\* The ExecuteTool call the caller made last, once the tool function has run.
Last == ret[Caller]

Finished(name) == Last.op = "ExecuteTool" /\ Last.name = name /\ Last.called

\* The call gave a non-empty string under key.
Given(key) == IsString(Last.fnParams, key) /\ StringOf(Last.fnParams, key) # <<>>

\* The file the call named under key.
PathOf(key) ==
  ResolveTarget(StringOf(Last.fnParams, key), StringOf(Last.fnParams, WorkDirKey))

\* What the path was before the call: "none", "dir" or "file".
KindBefore(path) ==
  IF Resolve(path) \in DOMAIN fnCall.before
  THEN fnCall.before[Resolve(path)].kind
  ELSE "none"

Elements(list) == { list[i] : i \in DOMAIN list }

\* The security policy of write_file in the words of its four rules.
WriteBlocked(path) ==
  \/ \E dp \in Elements(WriteDangerousPaths) : HasPrefix(Abs(path), dp)
  \/ \E de \in Elements(DangerousExtensions) : ToLower(Ext(path)) = <<de>>
  \/ ToLower(Base(path)) \in Elements(WriteSystemFiles)
  \/ \E c \in Elements(DangerousChars) : Contains(Base(path), <<c>>)

\* A write_file call that got as far as creating directories and writing.
WriteAttempted ==
  /\ Finished("write_file")
  /\ Given("target_file")
  /\ IsString(Last.fnParams, "content")
  /\ fnCall.io # "stat"
  /\ KindBefore(PathOf("target_file")) = "none" \/ BoolOf(Last.fnParams, "overwrite")
  /\ ~WriteBlocked(PathOf("target_file"))

\* A delete_file call that got as far as removing the file.
RemoveAttempted ==
  /\ Finished("delete_file")
  /\ Given("target_file")
  /\ fnCall.io # "stat"
  /\ KindBefore(PathOf("target_file")) = "file"
  /\ performSecurityChecks(PathOf("target_file")).isNil

\* A run_terminal_cmd call that got as far as launching the shell.
LaunchAttempted == Finished("run_terminal_cmd") /\ Given("command")

\* C12 (as claimed): a failure to create directories, to write or to delete
\* a file, and a failure to launch the subprocess, make ExecuteTool return a
\* ToolResult with success=false.
C12_InfrastructureFailureIsFailedResult ==
  (\/ WriteAttempted /\ fnCall.io \in {"mkdir", "write", "create"}
   \/ RemoveAttempted /\ fnCall.io = "remove"
   \/ LaunchAttempted /\ fnCall.io = "start")
  => ~Last.result.Success

\* The outcomes the claim calls expected, by the tool they happen in.
FileNotFound ==
  /\ fnCall.io = "none"
  /\ \/ Finished("read_file") /\ Given("target_file")
           /\ KindBefore(PathOf("target_file")) = "none"
     \/ Finished("delete_file") /\ Given("target_file")
           /\ KindBefore(PathOf("target_file")) = "none"
     \/ Finished("list_dir") /\ IsString(Last.fnParams, "relative_workspace_path")
           /\ KindBefore(PathOf("relative_workspace_path")) = "none"
     \/ Finished("search_replace") /\ Given("file_path") /\ Given("old_string")
           /\ IsString(Last.fnParams, "new_string")
           /\ KindBefore(PathOf("file_path")) = "none"

OverwriteDisabled ==
  /\ Finished("write_file")
  /\ Given("target_file")
  /\ IsString(Last.fnParams, "content")
  /\ fnCall.io = "none"
  /\ KindBefore(PathOf("target_file")) # "none"
  /\ ~BoolOf(Last.fnParams, "overwrite")

SubstringAbsent ==
  /\ Finished("search_replace")
  /\ Given("file_path") /\ Given("old_string") /\ IsString(Last.fnParams, "new_string")
  /\ fnCall.io = "none"
  /\ KindBefore(PathOf("file_path")) = "file"
  /\ ~Contains(fnCall.before[Resolve(PathOf("file_path"))].bytes,
               StringOf(Last.fnParams, "old_string"))

SecurityCheckTripped ==
  /\ fnCall.io = "none"
  /\ \/ /\ Finished("write_file") /\ Given("target_file")
        /\ IsString(Last.fnParams, "content")
        /\ KindBefore(PathOf("target_file")) = "none" \/ BoolOf(Last.fnParams, "overwrite")
        /\ ~performWriteSecurityChecks(PathOf("target_file")).isNil
     \/ /\ Finished("delete_file") /\ Given("target_file")
        /\ KindBefore(PathOf("target_file")) = "file"
        /\ ~performSecurityChecks(PathOf("target_file")).isNil

\* C13 (as claimed): file not found, overwrite disabled, substring absent
\* and a tripped security check are successful invocations of every tool.
C13_ExpectedOutcomesAreSuccessful ==
  (FileNotFound \/ OverwriteDisabled \/ SubstringAbsent \/ SecurityCheckTripped)
  => Last.result.Success

\* The Go type json.Unmarshal gives a value of a schema type.
GoType == [string |-> "string", boolean |-> "bool", integer |-> "float64"]

\* The call lacks a property its tool's schema requires, or gives it a value
\* of another type.
RequiredParameterMissing ==
  LET schema == tools[Last.name].Schema
  IN  \E k \in schema.Required :
        \/ ~Has(Last.fnParams, k)
        \/ Last.fnParams.m[k].type # GoType[schema.Properties[k]]

\* C14 (as claimed): a call without a parameter its schema requires, or with
\* one of the wrong type, is a failed tool execution.
C14_MissingRequiredParameterFails ==
  (Last.op = "ExecuteTool" /\ Last.called /\ RequiredParameterMissing)
  => ~Last.result.Success

\* A write_file call with a string target and content in an environment
\* where no operating system call fails for an outside reason.
WriteCalled ==
  /\ Finished("write_file")
  /\ Given("target_file")
  /\ IsString(Last.fnParams, "content")
  /\ fnCall.io = "none"

\* C15: write_file on a target that does not exist (and passes the security
\* check) makes the missing parent directories, writes the content and
\* reports written=true, created=true; write_file without overwrite=true on
\* a file that exists, as after that first call, reports written=false,
\* file_exists=true and leaves the filesystem as it was.
C15_WriteCreatesThenRefuses ==
  LET path == PathOf("target_file")
      content == StringOf(Last.fnParams, "content")
  IN  /\ (/\ WriteCalled
          /\ KindBefore(path) = "none"
          /\ ~WriteBlocked(path)
          /\ \A q \in Ancestors(Resolve(path)) : KindBefore(q) # "file")
         => /\ Last.result.Success
            /\ Last.result.Result.Written
            /\ Last.result.Result.Created
            /\ \A q \in Ancestors(Resolve(Dir(path))) : q \in DOMAIN disk /\ disk[q] = DirEntry
            /\ disk[Resolve(path)] = FileEntry(content)
            /\ \A q \in DOMAIN fnCall.before : disk[q] = fnCall.before[q]
      /\ (/\ WriteCalled
          /\ KindBefore(path) = "file"
          /\ ~BoolOf(Last.fnParams, "overwrite"))
         => /\ Last.result.Success
            /\ ~Last.result.Result.Written
            /\ Last.result.Result.FileExists
            /\ disk = fnCall.before

\* a/b/c.txt was written under directories that did not exist, and a second
\* call without overwrite has been refused.
C15_Witness ==
  /\ WriteCalled
  /\ StringOf(Last.fnParams, "target_file") = Target
  /\ ~BoolOf(Last.fnParams, "overwrite")
  /\ Last.result.Success
  /\ ~Last.result.Result.Written
  /\ Last.result.Result.FileExists
  /\ disk[Join(Cwd, <<"a">>)] = DirEntry
  /\ disk[Join(Cwd, <<"a", Sep, "b">>)] = DirEntry
  /\ disk[Join(Cwd, Target)].kind = "file"
  /\ disk[Join(Cwd, Target)].bytes # StringOf(Last.fnParams, "content")

\* A write_file call with a string target and content whose target the
\* security policy rejects.
RejectedWrite ==
  /\ Finished("write_file")
  /\ Given("target_file")
  /\ IsString(Last.fnParams, "content")
  /\ WriteBlocked(PathOf("target_file"))

\* os.Stat found the target of the call.
FoundBefore == KindBefore(PathOf("target_file")) # "none" /\ fnCall.io # "stat"

\* C16 (as claimed): write_file on a target that fails the security check
\* changes nothing on the filesystem and reports written=false with the
\* rejection reason.
C16_RejectedWriteReportsReason ==
  RejectedWrite
  => /\ disk = fnCall.before
     /\ Last.result.Success
     /\ ~Last.result.Result.Written
     /\ Len(Last.result.Result.Message) > 1
     /\ Last.result.Result.Message[1] = "Security check failed: "

\* C16 (amended): write_file on a target that fails the security check
\* changes nothing on the filesystem and reports written=false; the result
\* carries the rejection reason unless the target exists and overwrite is
\* not set, in which case it says that the file exists.
C16_RejectedWriteChangesNothing ==
  RejectedWrite
  => /\ disk = fnCall.before
     /\ Last.result.Success
     /\ ~Last.result.Result.Written
     /\ IF FoundBefore /\ ~BoolOf(Last.fnParams, "overwrite")
        THEN /\ Last.result.Result.Message = <<"File exists and overwrite is not enabled">>
             /\ Last.result.Result.FileExists
        ELSE /\ Len(Last.result.Result.Message) > 1
             /\ Last.result.Result.Message[1] = "Security check failed: "

\* A write to a file name with a dangerous character has been rejected.
C16_Witness ==
  /\ RejectedWrite
  /\ StringOf(Last.fnParams, "target_file") = <<"q", "?", ".txt">>
  /\ Last.result.Success
  /\ Last.result.Result.Message =
       <<"Security check failed: ", "filename contains dangerous character: ", "?">>
  /\ disk = fnCall.before

\* C17 (as claimed): a target that write_file's check rejects is rejected by
\* delete_file's check too, so delete_file does not remove such a file.
C17_DeleteRejectsWhatWriteRejects ==
  (/\ Finished("delete_file")
   /\ Given("target_file")
   /\ ~performWriteSecurityChecks(PathOf("target_file")).isNil)
  => /\ ~performSecurityChecks(PathOf("target_file")).isNil
     /\ disk = fnCall.before

\* A search_replace call with its three strings on a file that exists, in an
\* environment where no operating system call fails for an outside reason.
EditCalled ==
  /\ Finished("search_replace")
  /\ Given("file_path") /\ Given("old_string") /\ IsString(Last.fnParams, "new_string")
  /\ fnCall.io = "none"
  /\ KindBefore(PathOf("file_path")) = "file"

OldString == StringOf(Last.fnParams, "old_string")

NewString == StringOf(Last.fnParams, "new_string")

BytesBefore == fnCall.before[Resolve(PathOf("file_path"))].bytes

BytesAfter == disk[Resolve(PathOf("file_path"))].bytes

LinesBefore == ScanLines(BytesBefore)

Occurs(s, sub) ==
  \E i \in 1..(Len(s) - Len(sub) + 1) : SubSeq(s, i, i + Len(sub) - 1) = sub

\* The lines that contain the old substring, and the first of them.
Matching == { k \in DOMAIN LinesBefore : Occurs(LinesBefore[k], OldString) }

FirstMatching == CHOOSE k \in Matching : \A j \in Matching : k <= j

\* The first matching line with the first occurrence replaced.
ExpectedLine ==
  LET line == LinesBefore[FirstMatching]
      at == { i \in 1..(Len(line) - Len(OldString) + 1) :
                SubSeq(line, i, i + Len(OldString) - 1) = OldString }
      i == CHOOSE i \in at : \A j \in at : i <= j
  IN  SubSeq(line, 1, i - 1) \o NewString \o SubSeq(line, i + Len(OldString), Len(line))

ExpectedLines == [LinesBefore EXCEPT ![FirstMatching] = ExpectedLine]

\* The file has the lines it had, but for the first matching line.
OneLineChanged ==
  LET after == ScanLines(BytesAfter)
  IN  /\ Len(after) = Len(LinesBefore)
      /\ \A j \in DOMAIN LinesBefore : after[j] = ExpectedLines[j]

ReportsReplaced ==
  /\ Last.result.Success
  /\ Last.result.Result.Replaced
  /\ Last.result.Result.LineNumber = FirstMatching

\* C18 (as claimed): when the old substring occurs within a line, exactly the
\* first such line changes, by its first occurrence; the other lines and the
\* number of lines are unchanged, and the result reports replaced=true with
\* the line's number.
C18_OneLineChanged ==
  (EditCalled /\ Matching # {}) => (ReportsReplaced /\ OneLineChanged)

\* C18 (amended): when the old substring occurs within a line, the file is
\* rewritten as its scanned lines, each followed by one newline, with the
\* first occurrence in the first such line replaced, and the result reports
\* replaced=true with the line's number; the other lines and the number of
\* lines are unchanged when neither the file nor new_string holds a carriage
\* return and new_string holds no newline.
C18_FirstOccurrenceOfFirstLineReplaced ==
  (EditCalled /\ Matching # {})
  => /\ ReportsReplaced
     /\ Last.result.Result.OriginalLine = LinesBefore[FirstMatching]
     /\ Last.result.Result.NewLine = ExpectedLine
     /\ BytesAfter = JoinLines(ExpectedLines, 1, Len(ExpectedLines)) \o <<"\n">>
     /\ (/\ ~Occurs(NewString, <<"\n">>)
         /\ ~Occurs(NewString, <<"\r">>)
         /\ ~Occurs(BytesBefore, <<"\r">>))
        => OneLineChanged

\* The second line of a file held the old substring twice, and the first of
\* the two was replaced.
C18_Witness ==
  /\ EditCalled
  /\ Matching # {}
  /\ FirstMatching = 2
  /\ LinesBefore[2] = <<"a", "a">>
  /\ OldString = <<"a">>
  /\ NewString = <<"b">>
  /\ Last.result.Result.Replaced
  /\ BytesAfter = <<"\n", "b", "a", "\n">>

\* The call before this one: the same call, answered "not found".
RepeatsNotFound ==
  /\ fnCall.prev # <<>>
  /\ fnCall.prev[1].fnParams = Last.fnParams
  /\ fnCall.prev[1].io = "none"
  /\ fnCall.prev[1].result.Success
  /\ fnCall.prev[1].result.Result.Message = <<"Old string not found in file">>

\* C19: search_replace with an old substring that the file does not hold
\* returns replaced=false with a message and no error and leaves the file
\* as it was; the same call made again returns the same result and leaves
\* the same file.
C19_AbsentSubstringChangesNothing ==
  /\ (EditCalled /\ ~Occurs(BytesBefore, OldString))
     => /\ Last.result.Success
        /\ Last.err.isNil
        /\ ~Last.result.Result.Replaced
        /\ Last.result.Result.Message = <<"Old string not found in file">>
        /\ disk = fnCall.before
  /\ (EditCalled /\ RepeatsNotFound)
     => /\ Last.result = fnCall.prev[1].result
        /\ disk = fnCall.before

\* The same call was answered "not found" twice in a row on a file with text.
C19_Witness ==
  /\ EditCalled
  /\ RepeatsNotFound
  /\ ~Occurs(BytesBefore, OldString)
  /\ Len(BytesBefore) = 3
  /\ ~Last.result.Result.Replaced
  /\ disk = fnCall.before

\* A ranged read_file call on a file that exists, in an environment where no
\* operating system call fails for an outside reason.
RangeRead ==
  /\ Finished("read_file")
  /\ Given("target_file")
  /\ ~BoolOf(Last.fnParams, "should_read_entire_file")
  /\ fnCall.io = "none"
  /\ KindBefore(PathOf("target_file")) = "file"

FirstAsked == IntOf(Last.fnParams, "start_line_one_indexed")

LastAsked == IntOf(Last.fnParams, "end_line_one_indexed_inclusive")

LinesOfFile == Len(ScanLines(fnCall.before[Resolve(PathOf("target_file"))].bytes))

\* The call asked for lines 5 to 254 of a file of at least 254 lines.
Asked5To254 ==
  /\ RangeRead
  /\ FirstAsked = 5
  /\ LastAsked = 254
  /\ LinesOfFile >= 254

RefusedForLimit ==
  /\ ~Last.result.Success
  /\ Last.result.Error # <<>>
  /\ Last.result.Error[1] = "cannot read more than 250 lines at once (requested: "

\* C20 (as claimed): read_file asked for lines 5 to 254 of a file of at least
\* 254 lines fails, because the range exceeds the limit of 250 lines.
C20_Lines5To254Refused == Asked5To254 => ~Last.result.Success

\* C20 (amended): read_file asked for lines 5 to 254 of a file of at least 254
\* lines succeeds and returns those 250 lines; a range is refused for the
\* limit exactly when, with its end clamped to the file's last line, it holds
\* more than 250 lines.
C20_RangeRefusedAbove250Lines ==
  /\ Asked5To254
     => /\ Last.result.Success
        /\ Last.result.Result.StartLine = 5
        /\ Last.result.Result.EndLine = 254
        /\ Len(ScanLines(Last.result.Result.Content)) = 250
  /\ (RangeRead /\ FirstAsked >= 1 /\ FirstAsked <= LastAsked /\ FirstAsked <= LinesOfFile)
     => LET end == IF LastAsked > LinesOfFile THEN LinesOfFile ELSE LastAsked
        IN  RefusedForLimit <=> (end - FirstAsked + 1 > 250)

\* Lines 5 to 254 of a file of 300 lines were read.
C20_Witness ==
  /\ Asked5To254
  /\ LinesOfFile = 300
  /\ Last.result.Success
  /\ Last.result.Result.EndLine = 254

\* The range of a ranged read after clamping to the file.
FirstRead == IF FirstAsked < 1 THEN 1 ELSE FirstAsked

LastRead == IF LastAsked > LinesOfFile THEN LinesOfFile ELSE LastAsked

\* A ranged read of fewer than 200 lines that ends before the last line of
\* a file of at least 200 lines.
ShortRange ==
  /\ RangeRead
  /\ FirstRead <= LastAsked
  /\ FirstRead <= LinesOfFile
  /\ LinesOfFile >= 200
  /\ LastRead < LinesOfFile
  /\ LastRead - FirstRead + 1 < 200

SuggestedEnd == IF FirstRead + 199 > LinesOfFile THEN LinesOfFile ELSE FirstRead + 199

\* C21: a ranged read_file that spans fewer than 200 lines and ends before
\* the last line of a file of at least 200 lines fails, returns no content,
\* and its error suggests the range start..min(start+199, total).
C21_ShortRangeRefusedWithSuggestion ==
  ShortRange
  => /\ ~Last.result.Success
     /\ Last.result.Result = "nil"
     /\ Last.result.Error =
          <<"minimum 200 lines required when file has >= 200 lines. Consider reading lines ",
            ToString(FirstRead), "-", ToString(SuggestedEnd)>>

\* Lines 5 to 10 of a file of 300 lines were asked for, and 5-204 suggested.
C21_Witness ==
  /\ ShortRange
  /\ FirstAsked = 5
  /\ LastAsked = 10
  /\ LinesOfFile = 300
  /\ ~Last.result.Success
  /\ Last.result.Error[2] = "5"
  /\ Last.result.Error[4] = "204"

\* The suggestion stopped at the last line of a file of 254 lines.
C21_WitnessClamped ==
  /\ ShortRange
  /\ FirstAsked = 100
  /\ LinesOfFile = 254
  /\ Last.result.Error[4] = "254"

\* C22: grep_search returns at most 50 matches per search, with the search
\* utility and with the built-in scanner, however many lines and files match.
C22_AtMost50Matches ==
  (Finished("grep_search") /\ Last.result.Success)
  => /\ Last.result.Result.TotalMatches <= 50
     /\ Len(Last.result.Result.Matches) <= 50

\* C23: file_search returns at most 10 matches, in non-increasing order of
\* score, and its count is the number of matches returned.
C23_AtMost10MatchesByFallingScore ==
  (Finished("file_search") /\ Last.result.Success)
  => LET matches == Last.result.Result.Matches
     IN  /\ Len(matches) <= 10
         /\ \A i, j \in DOMAIN matches :
              i < j => ~Greater(matches[j].Score, matches[i].Score)
         /\ Last.result.Result.Count = Len(matches)

\* Ten matches of different scores came back from more than ten candidates.
C23_Witness ==
  /\ Finished("file_search")
  /\ Last.result.Success
  /\ Cardinality(DOMAIN fnCall.before) > 16
  /\ Last.result.Result.Count = 10
  /\ Greater(Last.result.Result.Matches[1].Score, Last.result.Result.Matches[10].Score)

----------------------------------------------------------------------------
(* Properties of the manager under concurrent calls *)

\* C24: the working directory of a tool call is the manager's working
\* directory when ExecuteTool copies it under the read lock; it stays what it
\* was while the tool function runs, whatever SetWorkDirectory does in the
\* meantime, and a later ExecuteTool copies the directory of its own moment.
C24_WorkDirFixedAtSnapshot ==
  [][\A t \in Threads :
       /\ (pc[t] = "ExecuteTool" /\ pc'[t] = "Function")
          => local'[t].params.m[WorkDirKey] = workDir
       /\ (pc[t] = "Function" /\ pc'[t] = "Function")
          => local'[t].params = local[t].params
       /\ (pc[t] = "Function" /\ pc'[t] = "idle")
          => ret'[t].fnParams = local[t].params]_vars

\* A tool function returned with the directory of its snapshot after another
\* thread had set a different working directory.
C24_Witness ==
  \E t, u \in Threads :
    /\ ret[t].op = "ExecuteTool"
    /\ ret[t].called
    /\ ret[u].op = "SetWorkDirectory"
    /\ ret[t].fnParams.m[WorkDirKey] # workDir

\* C25: no tool function runs with the registry lock held: the thread that
\* runs one holds the lock neither as a reader nor as the writer, and when the
\* other threads are outside the manager or in tool functions too, the lock is
\* free for RegisterTool, GetTool, ListTools and SetWorkDirectory to take.
C25_NoLockWhileFunctionRuns ==
  \A t \in Threads :
    pc[t] = "Function"
    => /\ t \notin mu.readers
       /\ mu.writer # t
       /\ (\A u \in Threads \ {t} : pc[u] \in {"idle", "Function"})
          => (CanLock /\ CanRLock)

\* While a tool function was still running, SetWorkDirectory took the write
\* lock and completed, and a RegisterTool holds the write lock now.
C25_Witness ==
  \E t, u \in Threads :
    /\ pc[t] = "Function"
    /\ local[t].workDir # workDir
    /\ pc[u] = "RegisterTool"
    /\ mu.writer = u

----------------------------------------------------------------------------
(* Properties of the order of a round *)

\* The position in the round's stream of the first fragment that came for the
\* tool call at position k of toolCalls.
FirstArrival(k) ==
  LET at == { i \in DOMAIN received : received[i].Index = <<k - 1>> }
  IN  IF at = {} THEN 0 ELSE CHOOSE i \in at : \A j \in at : i <= j

\* The tool-role replies at the end of the history.
TrailingReplies ==
  LET tail == { k \in 0..Len(messages) :
                  \A i \in (Len(messages) - k + 1)..Len(messages) :
                    messages[i].Role = "tool" }
  IN  CHOOSE k \in tail : \A j \in tail : j <= k

\* executeToolCall is called for the next tool call.
NextCallStarts == attempts' # attempts /\ attempts' # <<>>

\* No tool runs before the round's stream has ended, and a call starts only
\* when every call before it has its reply in the history.
OneAtATimeAfterTheStream ==
  /\ (attempts' # <<>> \/ pc'[Orch] \in {"ExecuteTool", "Function"}) => recvErr' = "EOF"
  /\ NextCallStarts
     => /\ attempts' = Append(attempts, callIdx)
        /\ pc[Orch] = "idle"
        /\ TrailingReplies = Len(attempts)
        /\ \A k \in DOMAIN attempts :
             messages[Len(messages) - Len(attempts) + k].ToolCallID
               = toolCalls[attempts[k]].ID

\* C26 (as claimed): no tool runs before the round's stream has ended, and the
\* round's tool calls run one at a time, each after the reply of the one
\* before, in the order in which their first fragments arrived.
C26_CallsRunInArrivalOrder ==
  [][/\ OneAtATimeAfterTheStream
     /\ NextCallStarts
        => \A k \in DOMAIN attempts : FirstArrival(attempts[k]) < FirstArrival(callIdx)]_vars

\* C26 (amended): no tool runs before the round's stream has ended, and the
\* round's tool calls run one at a time, each after the reply of the one
\* before, in the order of their positions in the round's list of tool
\* calls, which is the order of the indexes their fragments carried.
C26_CallsRunInIndexOrder ==
  [][/\ OneAtATimeAfterTheStream
     /\ NextCallStarts
        => \A k \in DOMAIN attempts : attempts[k] < callIdx]_vars

\* Two calls ran in the order of their indexes, the second after the reply of
\* the first, though the fragment of the second had arrived first.
C26_Witness ==
  /\ attempts = <<1, 2>>
  /\ opc = "loop"
  /\ TrailingReplies = 2
  /\ FirstArrival(2) < FirstArrival(1)
  /\ messages[Len(messages)].ToolCallID = toolCalls[2].ID

----------------------------------------------------------------------------
(* Properties of the commands run in the background *)

\* A run_terminal_cmd call with is_background=true whose process was started.
BackgroundStarted ==
  /\ Finished("run_terminal_cmd")
  /\ Given("command")
  /\ BoolOf(Last.fnParams, "is_background")
  /\ fnCall.io # "start"

\* C27: a run_terminal_cmd call with is_background=true whose process was
\* started returns with the process's PID and exit_code 0 while the process
\* still runs; the process is waited on by a goroutine of its own, once and
\* only after it has ended, and the caller takes no part in that wait.
C27_BackgroundReturnsWithoutWaiting ==
  [][/\ (pc[Caller] = "Function" /\ BackgroundStarted')
        => /\ pc'[Caller] = "idle"
           /\ Last'.result.Success
           /\ Last'.result.Result.IsBackground
           /\ Last'.result.Result.PID = FirstPID + Len(procs)
           /\ Last'.result.Result.ExitCode = 0
           /\ Last'.result.Result.Output =
                <<"Command started in background with PID: ",
                  ToString(FirstPID + Len(procs))>>
           /\ procs' = Append(procs, [state |-> "running", waiter |-> "waiting",
                                      reaped |-> 0])
     /\ \A i \in DOMAIN procs' :
          /\ procs'[i].reaped <= 1
          /\ procs'[i].reaped = 1 <=> procs'[i].waiter = "done"
          /\ procs'[i].reaped = 1 => procs'[i].state = "exited"
          /\ procs'[i].reaped = 0 => procs'[i].waiter = "waiting"
          /\ (i \in DOMAIN procs /\ procs'[i].reaped # procs[i].reaped)
               => (pc' = pc /\ ret' = ret /\ procs[i].state = "exited")]_vars

\* A second background call has returned while the first process still
\* runs, and the process it started has ended and was waited on.
C27_Witness ==
  /\ BackgroundStarted
  /\ pc[Caller] = "idle"
  /\ Len(procs) = 2
  /\ procs[1].state = "running"
  /\ procs[1].reaped = 0
  /\ procs[2].state = "exited"
  /\ procs[2].reaped = 1
  /\ Last.result.Result.PID = FirstPID + 1
  /\ Last.result.Result.ExitCode = 0

----------------------------------------------------------------------------
(* Properties of the registry *)

\* The ways to pair the positions of a list of schemas with the names
\* registered, one position for each name.
Pairings(schemas, registered) ==
  { f \in [DOMAIN schemas -> DOMAIN registered] :
      /\ \A n \in DOMAIN registered : \E i \in DOMAIN schemas : f[i] = n
      /\ \A i, j \in DOMAIN schemas : f[i] = f[j] => i = j
      /\ \A i \in DOMAIN schemas : schemas[i] = registered[f[i]].Schema }

\* C28: ListTools returns one schema for each name a RegisterTool call has
\* registered, none missing and none twice, and no step of the manager
\* removes a registered name or changes the tool registered under it.
C28_RegistryOnlyGrows ==
  [][/\ \A t \in Threads :
          (pc[t] = "ListTools" /\ pc'[t] = "idle")
          => Pairings(ret'[t].schemas, firstReg) # {}
     /\ \A n \in DOMAIN tools : n \in DOMAIN tools' /\ tools'[n] = tools[n]
     /\ \A n \in DOMAIN firstReg : n \in DOMAIN tools /\ tools[n] = firstReg[n]]_vars

\* Both names are registered with different tools, a later registration of
\* one of them with another tool was refused, and a ListTools call
\* returned the two schemas.
C28_Witness ==
  \E t, u \in Threads :
    /\ DOMAIN tools = Names
    /\ tools["read_file"] # tools["edit_file"]
    /\ ret[u].op = "RegisterTool"
    /\ ~ret[u].err.isNil
    /\ ret[u].argTool # tools[ret[u].name]
    /\ ret[t].op = "ListTools"
    /\ Len(ret[t].schemas) = 2
    /\ ret[t].schemas[1] # ret[t].schemas[2]

\* Two threads have returned from RegisterTool calls on one name, each made
\* while the other's was under way.
Raced(t, u) ==
  /\ t # u
  /\ ret[t].op = "RegisterTool"
  /\ ret[u].op = "RegisterTool"
  /\ ret[t].name = ret[u].name
  /\ u \in ret[t].with
  /\ t \in ret[u].with

\* The first call returned nil, the second the duplicate-name error, and the
\* registry holds the tool of the first.
OnlyFirstRegistered(t, u) ==
  /\ ret[t].err.isNil
  /\ ret[u].err = DuplicateError(ret[u].name)
  /\ ret[t].name \in DOMAIN tools
  /\ tools[ret[t].name] = ret[t].argTool

\* C29 as stated: of two concurrent RegisterTool calls on one name, one
\* returns nil and the other the duplicate-name error, and the registry holds
\* the tool of the call that returned nil.
C29_ExactlyOneRegisters ==
  \A t, u \in Workers :
    Raced(t, u) => (OnlyFirstRegistered(t, u) \/ OnlyFirstRegistered(u, t))

\* C29: of two concurrent RegisterTool calls on one name that was not
\* registered when either call was made, one returns nil and the other the
\* duplicate-name error, and the registry holds the tool of the call that
\* returned nil; on a name that was registered, both return the error.
C29_ExactlyOneRegistersFreshName ==
  \A t, u \in Workers :
    Raced(t, u)
    => /\ (ret[t].fresh /\ ret[u].fresh)
          => (OnlyFirstRegistered(t, u) \/ OnlyFirstRegistered(u, t))
       /\ (~ret[t].fresh /\ ~ret[u].fresh)
          => /\ ret[t].err = DuplicateError(ret[t].name)
             /\ ret[u].err = DuplicateError(ret[u].name)

\* Two concurrent calls with different tools on an unregistered name have
\* returned, and the registry holds the tool of the one that returned nil.
C29_Witness ==
  \E t, u \in Workers :
    /\ Raced(t, u)
    /\ ret[t].fresh
    /\ ret[u].fresh
    /\ ret[t].argTool # ret[u].argTool
    /\ OnlyFirstRegistered(t, u)

----------------------------------------------------------------------------
(* Properties of the last round *)

\* The query has returned because the loop reached its cap.
EndedByCap == opc = "done" /\ iteration = maxIterations

\* The calls of the round that the loop does not pass over, in their order.
RunnableCalls == SelectSeq(toolCalls, Runnable)

LastRequest == sent[Len(sent)].Messages

\* C30: when the loop has ended by its cap of 5 rounds, executeToolCall was
\* called for each tool call of the 5th round that the loop does not pass
\* over, the history ends with the round's assistant message and the replies
\* to these calls, and the 5 requests made, the last of them included,
\* carry none of these messages.
C30_LastRepliesNeverSent ==
  EndedByCap
  => /\ queryErr.isNil
     /\ Len(sent) = maxIterations
     /\ Len(toolCalls) > 0
     /\ Len(attempts) = Len(RunnableCalls)
     /\ \A j \in DOMAIN attempts : toolCalls[attempts[j]] = RunnableCalls[j]
     /\ \A j \in DOMAIN attempts : \A k \in DOMAIN attempts : j < k => attempts[j] < attempts[k]
     /\ Len(messages) = Len(LastRequest) + 1 + Len(RunnableCalls)
     /\ SubSeq(messages, 1, Len(LastRequest)) = LastRequest
     /\ messages[Len(LastRequest) + 1] = Message("assistant", contentBuffer, toolCalls, "")
     /\ \A j \in DOMAIN RunnableCalls :
          /\ messages[Len(LastRequest) + 1 + j].Role = "tool"
          /\ messages[Len(LastRequest) + 1 + j].ToolCallID = RunnableCalls[j].ID
     /\ \A k \in DOMAIN sent : Len(sent[k].Messages) <= Len(LastRequest)

\* The loop has ended by its cap after a 5th round whose tool call the
\* manager executed, and the history ends with the reply to it.
C30_Witness ==
  /\ EndedByCap
  /\ Len(RunnableCalls) = 1
  /\ ret[Orch].op = "ExecuteTool"
  /\ ret[Orch].called
  /\ messages[Len(messages)].Role = "tool"
  /\ messages[Len(messages)].ToolCallID = "call_a"
  /\ Len(messages) = Len(LastRequest) + 2


====
